---- MODULE Spec2Model ----
(***************************************************************************)
(* A model of usbbw's core: the speed and endpoint arithmetic              *)
(* (model/speed.rs, model/endpoint.rs), the device-path derivations and    *)
(* bandwidth roll-ups (model/topology.rs) and the three-pass topology      *)
(* build (sysfs/parser.rs).                                                *)
(*                                                                         *)
(* u64 values are kept as little-endian sequences of decimal digits with   *)
(* no leading zero (<<>> is 0), because the products the code forms        *)
(* (bits * 1_000_000, 20_000_000_000 * 80) do not fit the 32-bit integers  *)
(* of the model checker.  Strings are TLA+ strings; a character is a       *)
(* string of length 1.                                                     *)
(***************************************************************************)
EXTENDS Integers, Sequences, FiniteSets, TLC

VARIABLES
    sp_mbps,       \* speed.rs: the magnitude handed to from_mbps
    sp_class,      \* speed.rs: the class in use after from_mbps(..).unwrap_or(Full)
    sp_out,        \* speed.rs: what the class's queries returned
    ep,            \* endpoint.rs: the Endpoint bandwidth_bps is called on
    device_speed,  \* endpoint.rs: the device_speed argument
    bw,            \* endpoint.rs: the outcome of bandwidth_bps
    sysfs,         \* the external enumeration: entry name -> attribute contents
    pass,          \* parser.rs: where parse_topology stands
    todo,          \* parser.rs: entries the current read_dir has not yielded yet
    bus_todo,      \* parser.rs: buses the third pass has not visited yet
    topology,      \* parser.rs: the UsbTopology under construction
    snapshots,     \* what the parse_topology calls so far returned, in order
    path_in,       \* topology.rs: the string held by a DevicePath
    path_out,      \* topology.rs: what the DevicePath's methods returned
    pool,          \* bandwidth.rs: a BandwidthPool
    pool_adds,     \* bandwidth.rs: how many add_usage calls the pool has had
    recommended,   \* main.rs: the outcome of the recommend command's ordering
    app,           \* app.rs: the App's topology and discovery tracking
    pending_labels, \* app.rs: App::pending_labels
    products,      \* loader.rs: Config::products of the App's config
    edit_mode,     \* app.rs: App::edit_mode
    config_file,   \* main.rs: the entries written to the user's config file
    items,         \* app.rs: the device labels of the last render
    files,         \* loader.rs: the configuration files on disk
    seen,          \* loader.rs: the seen set of one load
    stack,         \* loader.rs: the active read_and_flatten_toml calls
    load_result    \* loader.rs: what load_from_path returned

speedVars == <<sp_mbps, sp_class, sp_out>>
endpointVars == <<ep, device_speed, bw>>
buildVars == <<sysfs, pass, todo, bus_todo, topology, snapshots>>
pathVars == <<path_in, path_out>>
poolVars == <<pool, pool_adds>>
recommendVars == <<recommended>>
appVars == <<app>>
labelVars == <<pending_labels, products, edit_mode, config_file, items>>
loadVars == <<files, seen, stack, load_result>>
vars == <<sp_mbps, sp_class, sp_out, ep, device_speed, bw,
          sysfs, pass, todo, bus_todo, topology, snapshots, path_in, path_out,
          pool, pool_adds, recommended, app,
          pending_labels, products, edit_mode, config_file, items,
          files, seen, stack, load_result>>

\* what the actions of one component leave alone
notSpeed == <<endpointVars, buildVars, pathVars, poolVars, recommendVars, appVars,
              labelVars, loadVars>>
notEndpoint == <<speedVars, buildVars, pathVars, poolVars, recommendVars, appVars,
                 labelVars, loadVars>>
notBuild == <<speedVars, endpointVars, pathVars, poolVars, recommendVars, appVars,
              labelVars, loadVars>>
notPath == <<speedVars, endpointVars, buildVars, poolVars, recommendVars, appVars,
             labelVars, loadVars>>

None == "None"

-----------------------------------------------------------------------------
(* u64 arithmetic on decimal digit sequences *)

RECURSIVE Digits(_)
Digits(n) == IF n = 0 THEN <<>> ELSE <<n % 10>> \o Digits(n \div 10)

\* the value billions * 10^9 + rest, for writing literals beyond 2^31
RECURSIVE PadTo(_, _)
PadTo(d, len) == IF Len(d) >= len THEN d ELSE PadTo(d \o <<0>>, len)

RECURSIVE Normalize(_)
Normalize(d) ==
    IF d = <<>> THEN <<>>
    ELSE IF d[Len(d)] = 0 THEN Normalize(SubSeq(d, 1, Len(d) - 1)) ELSE d

Big(billions, rest) ==
    IF billions = 0 THEN Digits(rest) ELSE PadTo(Digits(rest), 9) \o Digits(billions)

RECURSIVE BigToInt(_)
BigToInt(d) == IF d = <<>> THEN 0 ELSE d[1] + 10 * BigToInt(Tail(d))

RECURSIVE MulCarry(_, _, _)
MulCarry(d, k, carry) ==
    IF d = <<>> THEN Digits(carry)
    ELSE LET t == d[1] * k + carry
         IN  <<t % 10>> \o MulCarry(Tail(d), k, t \div 10)

\* a * k for a small factor k
BigMulSmall(a, k) == Normalize(MulCarry(a, k, 0))

RECURSIVE AddCarry(_, _, _)
AddCarry(a, b, carry) ==
    IF a = <<>> /\ b = <<>> THEN Digits(carry)
    ELSE LET x == IF a = <<>> THEN 0 ELSE a[1]
             y == IF b = <<>> THEN 0 ELSE b[1]
             t == x + y + carry
         IN  <<t % 10>> \o AddCarry(IF a = <<>> THEN a ELSE Tail(a),
                                    IF b = <<>> THEN b ELSE Tail(b), t \div 10)

BigAdd(a, b) == Normalize(AddCarry(a, b, 0))

\* long division from the most significant digit; the result is
\* <<quotient digits (little-endian), remainder>>
RECURSIVE DivRem(_, _, _)
DivRem(d, k, i) ==
    IF i = 0 THEN [r |-> 0, q |-> <<>>]
    ELSE LET up == DivRem(d, k, i - 1)
             cur == up.r * 10 + d[Len(d) + 1 - i]
         IN  [r |-> cur % k, q |-> <<cur \div k>> \o up.q]

\* floor(a / k) for a small divisor k > 0
BigDivSmall(a, k) == Normalize(DivRem(a, k, Len(a)).q)

RECURSIVE LessFrom(_, _, _)
LessFrom(a, b, i) ==
    IF i = 0 THEN FALSE
    ELSE IF a[i] # b[i] THEN a[i] < b[i] ELSE LessFrom(a, b, i - 1)

BigLess(a, b) ==
    IF Len(a) # Len(b) THEN Len(a) < Len(b) ELSE LessFrom(a, b, Len(a))

BigLeq(a, b) == a = b \/ BigLess(a, b)

RECURSIVE SubBorrow(_, _, _)
SubBorrow(a, b, borrow) ==
    IF a = <<>> THEN <<>>
    ELSE LET y == IF b = <<>> THEN 0 ELSE b[1]
             t == a[1] - y - borrow
         IN  <<IF t < 0 THEN t + 10 ELSE t>>
                 \o SubBorrow(Tail(a), IF b = <<>> THEN b ELSE Tail(b),
                              IF t < 0 THEN 1 ELSE 0)

\* a - b for a >= b
BigSub(a, b) == Normalize(SubBorrow(a, b, 0))

RECURSIVE BigMul(_, _)
BigMul(a, b) ==
    IF b = <<>> THEN <<>>
    ELSE BigAdd(BigMulSmall(a, b[1]), <<0>> \o BigMul(a, Tail(b)))

\* how many times b fits into r
RECURSIVE FitCount(_, _)
FitCount(r, b) == IF BigLess(r, b) THEN 0 ELSE 1 + FitCount(BigSub(r, b), b)

\* long division of a by b > 0 from digit i down, the digits above it having
\* given quotient q and remainder r: quotient (little-endian) and remainder
RECURSIVE BigDivRem(_, _, _, _, _)
BigDivRem(a, b, i, q, r) ==
    IF i = 0 THEN [q |-> q, r |-> r]
    ELSE LET cur == Normalize(<<a[i]>> \o r)
             n == FitCount(cur, b)
             rest == BigSub(cur, BigMulSmall(b, n))
         IN  IF Len(rest) >= 0 THEN BigDivRem(a, b, i - 1, <<n>> \o q, rest)
             ELSE [q |-> q, r |-> r]

-----------------------------------------------------------------------------
(* f64 arithmetic: a finite value >= 0 is m * 2^e with m = 0 or               *)
(* 2^52 <= m < 2^53; every operation rounds to nearest, ties to even          *)

\* n * 2^k and floor(n / 2^k), at most 24 bits at a time
RECURSIVE ShiftLeft(_, _)
ShiftLeft(n, k) ==
    IF k = 0 THEN n
    ELSE LET step == IF k >= 24 THEN 24 ELSE k
             shifted == BigMulSmall(n, 2 ^ step)
         IN  IF Len(shifted) >= 0 THEN ShiftLeft(shifted, k - step) ELSE n

RECURSIVE ShiftRight(_, _)
ShiftRight(n, k) ==
    IF k = 0 THEN n
    ELSE LET step == IF k >= 24 THEN 24 ELSE k
             shifted == BigDivSmall(n, 2 ^ step)
         IN  IF Len(shifted) >= 0 THEN ShiftRight(shifted, k - step) ELSE n

Pow2(k) == ShiftLeft(<<1>>, k)

\* the number of bits of n
RECURSIVE BitLength(_)
BitLength(n) ==
    IF n = <<>> THEN 0
    ELSE IF Len(n) > 8 THEN 24 + BitLength(BigDivSmall(n, 2 ^ 24))
    ELSE 1 + BitLength(BigDivSmall(n, 2))

F64Zero == [m |-> <<>>, e |-> 0]

\* the f64 nearest to (n + f) * 2^e, where 0 < f < 1 if sticky and f = 0 if not
round_to_f64(n, e, sticky) ==
    IF n = <<>> THEN F64Zero
    ELSE LET b == BitLength(n)
         IN  IF b <= 53 THEN [m |-> ShiftLeft(n, 53 - b), e |-> e - (53 - b)]
             ELSE LET s == b - 53
                      q == ShiftRight(n, s)
                      half == ShiftLeft(BigAdd(BigMulSmall(q, 2), <<1>>), s)
                      twice == BigMulSmall(n, 2)
                      up == \/ BigLess(half, twice)
                            \/ half = twice /\ (sticky \/ q[1] % 2 = 1)
                      r == IF up THEN BigAdd(q, <<1>>) ELSE q
                  IN  IF r = Pow2(53) THEN [m |-> Pow2(52), e |-> e + s + 1]
                      ELSE [m |-> r, e |-> e + s]

\* n as f64
u64_as_f64(n) == round_to_f64(n, 0, FALSE)

\* x / y for y > 0
f64_div(x, y) ==
    IF x.m = <<>> THEN F64Zero
    ELSE LET n == ShiftLeft(x.m, 55)
             d == BigDivRem(n, y.m, Len(n), <<>>, <<>>)
         IN  round_to_f64(Normalize(d.q), x.e - y.e - 55, d.r # <<>>)

\* x * k for an integer k that is an f64 (100.0)
f64_mul_int(x, k) == round_to_f64(BigMulSmall(x.m, k), x.e, FALSE)

\* x > k and x = k for an integer k >= 0 that is an f64
f64_gt_int(x, k) ==
    IF x.m = <<>> THEN FALSE
    ELSE IF x.e >= 0 THEN BigLess(Digits(k), ShiftLeft(x.m, x.e))
    ELSE BigLess(ShiftLeft(Digits(k), 0 - x.e), x.m)

f64_eq_int(x, k) ==
    IF x.e >= 0 THEN Digits(k) = ShiftLeft(x.m, x.e)
    ELSE ShiftLeft(Digits(k), 0 - x.e) = x.m

\* 2^64 = 18446744073709551616
Two64 == <<6,1,6,1,5,5,9,0,7,3,7,0,4,4,7,6,4,4,8,1>>

FitsU64(a) == BigLess(a, Two64)

-----------------------------------------------------------------------------
(* model/speed.rs *)

UsbSpeed == {"Low", "Full", "High", "Super", "SuperPlus", "SuperPlus2"}

\* mbps is a u32, given as a digit sequence
from_mbps(mbps) ==
    CASE mbps \in {Digits(1), Digits(2)} -> "Low"
      [] mbps = Digits(12) -> "Full"
      [] mbps = Digits(480) -> "High"
      [] mbps = Digits(5000) -> "Super"
      [] mbps = Digits(10000) -> "SuperPlus"
      [] mbps = Digits(20000) -> "SuperPlus2"
      [] OTHER -> None

raw_bandwidth_bps(speed) ==
    CASE speed = "Low" -> Big(0, 1500000)
      [] speed = "Full" -> Big(0, 12000000)
      [] speed = "High" -> Big(0, 480000000)
      [] speed = "Super" -> Big(5, 0)
      [] speed = "SuperPlus" -> Big(10, 0)
      [] speed = "SuperPlus2" -> Big(20, 0)

\* mutant: one 80% ceiling for every class
max_periodic_bandwidth_bps_All80(speed) ==
    BigDivSmall(BigMulSmall(raw_bandwidth_bps(speed), 80), 100)

max_periodic_bandwidth_bps(speed) ==
    CASE speed \in {"Low", "Full"} ->
            BigDivSmall(BigMulSmall(raw_bandwidth_bps(speed), 90), 100)
      [] speed = "High" ->
            BigDivSmall(BigMulSmall(raw_bandwidth_bps(speed), 80), 100)
      [] speed \in {"Super", "SuperPlus", "SuperPlus2"} ->
            BigDivSmall(BigMulSmall(raw_bandwidth_bps(speed), 80), 100)

frame_period_us(speed) ==
    CASE speed \in {"Low", "Full"} -> 1000
      [] OTHER -> 125

is_superspeed(speed) == speed \in {"Super", "SuperPlus", "SuperPlus2"}

\* UsbSpeed::from_mbps(speed).unwrap_or(UsbSpeed::Full), as both callers do
speed_or_full(mbps) == IF from_mbps(mbps) = None THEN "Full" ELSE from_mbps(mbps)

-----------------------------------------------------------------------------
(* model/endpoint.rs *)

TransferType == {"Control", "Bulk", "Interrupt", "Isochronous"}

\* mutant: Bulk counted as a reserving type
reserves_bandwidth_WithBulk(transfer_type) ==
    transfer_type \in {"Bulk", "Interrupt", "Isochronous"}

reserves_bandwidth(transfer_type) == transfer_type \in {"Interrupt", "Isochronous"}

base_packet_size(e) == e.max_packet_size % 2048

\* mutant: the reserved raw value 3 capped at 3 transactions
multiplier_Cap3(e) ==
    LET mult_bits == (e.max_packet_size \div 2048) % 4
    IN  IF mult_bits = 0 THEN 1 ELSE IF mult_bits = 3 THEN 3 ELSE mult_bits + 1

multiplier(e) ==
    LET mult_bits == (e.max_packet_size \div 2048) % 4
    IN  IF mult_bits = 0 THEN 1 ELSE mult_bits + 1

\* mutant: the exponent taken as the code itself
interval_exponent_OffByOne(e) == IF e.b_interval < 15 THEN e.b_interval ELSE 15

\* (self.b_interval - 1).min(15) as u32
interval_exponent(e) == IF e.b_interval - 1 < 15 THEN e.b_interval - 1 ELSE 15

\* mutant: code 0 on Low/Full taken as 0 ms
interval_us_ZeroMs(e, speed) ==
    IF speed \in {"Low", "Full"}
    THEN e.b_interval * 1000
    ELSE IF e.b_interval = 0 THEN 125
         ELSE (2 ^ interval_exponent(e)) * 125

\* mutant: code 0 on High and above taken as interval 0
interval_us_ZeroHigh(e, speed) ==
    IF speed \in {"Low", "Full"}
    THEN LET interval_ms == IF e.b_interval = 0 THEN 1 ELSE e.b_interval
         IN  interval_ms * 1000
    ELSE IF e.b_interval = 0 THEN 0
         ELSE (2 ^ interval_exponent(e)) * 125

interval_us(e, speed) ==
    IF speed \in {"Low", "Full"}
    THEN LET interval_ms == IF e.b_interval = 0 THEN 1 ELSE e.b_interval
         IN  interval_ms * 1000
    ELSE IF e.b_interval = 0 THEN 125
         ELSE (2 ^ interval_exponent(e)) * 125

bits_per_interval(e) == base_packet_size(e) * multiplier(e) * 8

\* bits_per_interval * 1_000_000, the u64 product formed before the division
bandwidth_product(e) == BigMulSmall(Digits(bits_per_interval(e)), 1000000)

\* What can stop the computation instead of returning a value: a shift by
\* 64 or more in 1u64 << exponent, or a product beyond u64.  (The division
\* is only reached with interval_us /= 0, by the guard before it.)
bandwidth_fault(e, speed) ==
    IF ~reserves_bandwidth(e.transfer_type) THEN "none"
    ELSE IF speed \notin {"Low", "Full"} /\ e.b_interval # 0 /\ interval_exponent(e) >= 64
         THEN "shl_overflow"
    ELSE IF interval_us(e, speed) = 0 THEN "none"
    ELSE IF ~FitsU64(bandwidth_product(e)) THEN "mul_overflow"
    ELSE "none"

bandwidth_bps(e, speed) ==
    IF ~reserves_bandwidth(e.transfer_type) THEN <<>>
    ELSE IF interval_us(e, speed) = 0 THEN <<>>
    ELSE BigDivSmall(bandwidth_product(e), interval_us(e, speed))

-----------------------------------------------------------------------------
(* Strings: the operations of str the code uses *)

CharAt(s, i) == SubSeq(s, i, i)

contains(s, c) == \E i \in 1 .. Len(s) : CharAt(s, i) = c

\* position of the first / last occurrence of character c, 0 when there is none
find(s, c) ==
    IF contains(s, c) THEN CHOOSE i \in 1 .. Len(s) :
            CharAt(s, i) = c /\ \A j \in 1 .. (i - 1) : CharAt(s, j) # c
    ELSE 0

rfind(s, c) ==
    IF contains(s, c) THEN CHOOSE i \in 1 .. Len(s) :
            CharAt(s, i) = c /\ \A j \in (i + 1) .. Len(s) : CharAt(s, j) # c
    ELSE 0

starts_with(s, prefix) == Len(s) >= Len(prefix) /\ SubSeq(s, 1, Len(prefix)) = prefix

\* s.strip_prefix(prefix): [some |-> TRUE, v |-> rest] or none
strip_prefix(s, prefix) ==
    IF starts_with(s, prefix) THEN [some |-> TRUE, v |-> SubSeq(s, Len(prefix) + 1, Len(s))]
    ELSE [some |-> FALSE, v |-> ""]

IsSpace(c) == c \in {" ", "\n", "\t"}

RECURSIVE trim_start(_)
trim_start(s) ==
    IF s # "" /\ IsSpace(CharAt(s, 1)) THEN trim_start(SubSeq(s, 2, Len(s))) ELSE s

RECURSIVE trim_end(_)
trim_end(s) ==
    IF s # "" /\ IsSpace(CharAt(s, Len(s))) THEN trim_end(SubSeq(s, 1, Len(s) - 1)) ELSE s

trim(s) == trim_end(trim_start(s))

\* the piece of s before the first occurrence of c: s.split(c).next()
split_first(s, c) == IF contains(s, c) THEN SubSeq(s, 1, find(s, c) - 1) ELSE s

\* byte values of the characters that occur in entry names
CharCode(c) ==
    CASE c = "-" -> 45 [] c = "." -> 46 [] c = "0" -> 48 [] c = "1" -> 49
      [] c = "2" -> 50 [] c = "3" -> 51 [] c = "4" -> 52 [] c = "5" -> 53
      [] c = "6" -> 54 [] c = "7" -> 55 [] c = "8" -> 56 [] c = "9" -> 57
      [] c = ":" -> 58 [] c = "b" -> 98 [] c = "s" -> 115 [] c = "u" -> 117

\* a.cmp(b) == Less on strings: bytewise lexicographic order
RECURSIVE StrLess(_, _)
StrLess(a, b) ==
    IF b = "" THEN FALSE
    ELSE IF a = "" THEN TRUE
    ELSE IF CharAt(a, 1) # CharAt(b, 1) THEN CharCode(CharAt(a, 1)) < CharCode(CharAt(b, 1))
    ELSE StrLess(SubSeq(a, 2, Len(a)), SubSeq(b, 2, Len(b)))

\* value of a digit character in the radix, -1 when it is none
DigitVal(c, radix) ==
    LET v == CASE c = "0" -> 0 [] c = "1" -> 1 [] c = "2" -> 2 [] c = "3" -> 3
               [] c = "4" -> 4 [] c = "5" -> 5 [] c = "6" -> 6 [] c = "7" -> 7
               [] c = "8" -> 8 [] c = "9" -> 9
               [] c \in {"a", "A"} -> 10 [] c \in {"b", "B"} -> 11
               [] c \in {"c", "C"} -> 12 [] c \in {"d", "D"} -> 13
               [] c \in {"e", "E"} -> 14 [] c \in {"f", "F"} -> 15
               [] OTHER -> -1
    IN  IF v < radix THEN v ELSE -1

RECURSIVE strip_zeros(_)
strip_zeros(s) ==
    IF s # "" /\ CharAt(s, 1) = "0" THEN strip_zeros(SubSeq(s, 2, Len(s))) ELSE s

\* the value of a string of digits with no leading zero, as a digit sequence:
\* in radix 10 the digits themselves, least significant first; in another
\* radix (at most 7 digits) by accumulation
RECURSIVE AccumulateDigits(_, _, _)
AccumulateDigits(s, radix, acc) ==
    IF s = "" THEN acc
    ELSE AccumulateDigits(SubSeq(s, 2, Len(s)), radix,
                          acc * radix + DigitVal(CharAt(s, 1), radix))

DigitsValue(s, radix) ==
    IF radix = 10 THEN [i \in 1 .. Len(s) |-> DigitVal(CharAt(s, Len(s) + 1 - i), 10)]
    ELSE Digits(AccumulateDigits(s, radix, 0))

\* uN::from_str_radix(s, radix) for an unsigned type of at most 32 bits whose
\* largest value is max: an optional leading '+', then one or more digits, the
\* value at most max.  The value is a digit sequence.  (More than 10
\* significant digits exceed every such type in every radix.)
from_str_radix(s, radix, max) ==
    LET body == IF s # "" /\ CharAt(s, 1) = "+" THEN SubSeq(s, 2, Len(s)) ELSE s
        significant == strip_zeros(body)
    IN  IF body = "" \/ \E i \in 1 .. Len(body) : DigitVal(CharAt(body, i), radix) = -1
        THEN [ok |-> FALSE, v |-> <<>>]
        ELSE IF Len(significant) > 10 \/ (radix # 10 /\ Len(significant) > 7)
        THEN [ok |-> FALSE, v |-> <<>>]
        ELSE LET v == DigitsValue(significant, radix)
             IN  IF BigLeq(v, max) THEN [ok |-> TRUE, v |-> v] ELSE [ok |-> FALSE, v |-> <<>>]

U8Max == Digits(255)
U16Max == Digits(65535)
U32Max == Big(4, 294967295)

-----------------------------------------------------------------------------
(* model/topology.rs: DevicePath *)

\* Option<DevicePath>: [some |-> BOOLEAN, v |-> path]
NoPath == [some |-> FALSE, v |-> ""]
SomePath(p) == [some |-> TRUE, v |-> p]

\* mutant: the path is cut at its first '.'
parent_FirstDot(path) ==
    IF find(path, ".") # 0 THEN SomePath(SubSeq(path, 1, find(path, ".") - 1))
    ELSE IF rfind(path, "-") # 0
         THEN SomePath("usb" \o SubSeq(path, 1, rfind(path, "-") - 1))
         ELSE NoPath

parent(path) ==
    IF rfind(path, ".") # 0 THEN SomePath(SubSeq(path, 1, rfind(path, ".") - 1))
    ELSE IF rfind(path, "-") # 0
         THEN SomePath("usb" \o SubSeq(path, 1, rfind(path, "-") - 1))
         ELSE NoPath

\* Option<u8> as an integer, -1 for None.  split('-').next() is always Some,
\* so the or_else(strip_prefix("usb")) arm is never taken.
bus_num(path) ==
    LET r == from_str_radix(split_first(path, "-"), 10, U8Max)
    IN  IF r.ok THEN BigToInt(r.v) ELSE -1

\* self.0.split('-').nth(1): the piece between the first '-' and the next
\* one (or the end), none when there is no '-'
port_path(path) ==
    IF contains(path, "-")
    THEN [some |-> TRUE,
          v |-> split_first(SubSeq(path, find(path, "-") + 1, Len(path)), "-")]
    ELSE [some |-> FALSE, v |-> ""]

\* p.matches(c).count()
matches_count(s, c) == Cardinality({i \in 1 .. Len(s) : CharAt(s, i) = c})

\* mutant: the ports of the path are counted
depth_Ports(path) ==
    IF port_path(path).some THEN matches_count(port_path(path).v, ".") + 1 ELSE 0

depth(path) == IF port_path(path).some THEN matches_count(port_path(path).v, ".") ELSE 0

is_root_hub(path) == starts_with(path, "usb")

-----------------------------------------------------------------------------
(* model/topology.rs: devices, buses, controllers, the topology *)

\* HashMap: a function; insert replaces the value under an existing key
EmptyMap == [k \in {} |-> 0]
Put(map, key, value) ==
    [k \in (DOMAIN map) \cup {key} |-> IF k = key THEN value ELSE map[k]]

EmptyTopology == [controllers |-> EmptyMap, buses |-> EmptyMap]

\* filter(reserves_bandwidth).map(bandwidth_bps(speed)).sum() over an
\* endpoint list
RECURSIVE sum_reserved(_, _)
sum_reserved(endpoints, speed) ==
    IF endpoints = <<>> THEN <<>>
    ELSE BigAdd(IF reserves_bandwidth(Head(endpoints).transfer_type)
                THEN bandwidth_bps(Head(endpoints), speed) ELSE <<>>,
                sum_reserved(Tail(endpoints), speed))

\* mutant: every endpoint evaluated at the High-speed interval rule
periodic_bandwidth_bps_AtHigh(device) == sum_reserved(device.endpoints, "High")

periodic_bandwidth_bps(device) == sum_reserved(device.endpoints, device.speed)

\* values().map(periodic_bandwidth_bps).sum() over a device map, whose
\* iteration order does not matter to a sum
RECURSIVE sum_devices(_, _)
sum_devices(devices, keys) ==
    IF keys = {} THEN <<>>
    ELSE LET k == CHOOSE x \in keys : TRUE
         IN  BigAdd(periodic_bandwidth_bps(devices[k]), sum_devices(devices, keys \ {k}))

periodic_bandwidth_used_bps(bus) == sum_devices(bus.devices, DOMAIN bus.devices)

\* mutant: the slot the bus itself is in is returned
RECURSIVE get_paired_bus_SameSlot(_, _, _)
get_paired_bus_SameSlot(topo, ids, num) ==
    IF ids = <<>> THEN -1
    ELSE LET controller == topo.controllers[Head(ids)]
         IN  IF controller.usb2_bus = num THEN controller.usb2_bus
             ELSE IF controller.usb3_bus = num THEN controller.usb3_bus
             ELSE get_paired_bus_SameSlot(topo, Tail(ids), num)

\* get_paired_bus(bus_num) when controllers.values() yields the controllers
\* in the order ids; Option<u8> as an integer, -1 for None
RECURSIVE get_paired_bus(_, _, _)
get_paired_bus(topo, ids, num) ==
    IF ids = <<>> THEN -1
    ELSE LET controller == topo.controllers[Head(ids)]
         IN  IF controller.usb2_bus = num THEN controller.usb3_bus
             ELSE IF controller.usb3_bus = num THEN controller.usb2_bus
             ELSE get_paired_bus(topo, Tail(ids), num)

\* get_controller_for_bus(bus_num) under the same iteration order: the id of
\* the controller found, or none
RECURSIVE get_controller_for_bus(_, _, _)
get_controller_for_bus(topo, ids, num) ==
    IF ids = <<>> THEN [some |-> FALSE, v |-> ""]
    ELSE LET controller == topo.controllers[Head(ids)]
         IN  IF controller.usb2_bus = num \/ controller.usb3_bus = num
             THEN [some |-> TRUE, v |-> controller.id]
             ELSE get_controller_for_bus(topo, Tail(ids), num)

-----------------------------------------------------------------------------
(* sysfs/parser.rs: reading attributes *)

\* An attribute file's contents; "" stands for a file that is missing or
\* unreadable as well as for an empty one: every reader fails on both.
read_attr_string(name, attr) == IF name \in DOMAIN sysfs THEN sysfs[name][attr] ELSE ""

read_attr_u8(name, attr) == from_str_radix(trim(read_attr_string(name, attr)), 10, U8Max)
read_attr_u32(name, attr) == from_str_radix(trim(read_attr_string(name, attr)), 10, U32Max)

\* the readers of one endpoint directory d (a record of file contents)
read_hex_u8(content) == from_str_radix(trim(content), 16, U8Max)
read_hex_u16(content) == from_str_radix(trim(content), 16, U16Max)
read_hex_attr_u16(name, attr) == read_hex_u16(read_attr_string(name, attr))

TransferType_from_sysfs(str) ==
    CASE trim(str) = "Control" -> "Control"
      [] trim(str) = "Bulk" -> "Bulk"
      [] trim(str) = "Interrupt" -> "Interrupt"
      [] trim(str) \in {"Isoc", "Isochronous"} -> "Isochronous"
      [] OTHER -> None

Direction_from_sysfs(str) ==
    CASE trim(str) = "in" -> "In"
      [] trim(str) = "out" -> "Out"
      [] OTHER -> None

NoEndpoint == [address |-> 0, transfer_type |-> None, direction |-> None,
               max_packet_size |-> 0, b_interval |-> 0]

\* parse_endpoint on an endpoint directory d
parse_endpoint(d) ==
    LET transfer_type == TransferType_from_sysfs(d.type)
        direction == Direction_from_sysfs(d.direction)
        address == read_hex_u8(d.bEndpointAddress)
        b_interval == read_hex_u8(d.bInterval)
        max_packet_size == read_hex_u16(d.wMaxPacketSize)
    IN  IF d.type = "" \/ transfer_type = None THEN [ok |-> FALSE, v |-> NoEndpoint]
        ELSE IF d.direction = "" \/ direction = None THEN [ok |-> FALSE, v |-> NoEndpoint]
        ELSE IF ~address.ok THEN [ok |-> FALSE, v |-> NoEndpoint]
        ELSE [ok |-> TRUE,
              v |-> [address |-> BigToInt(address.v),
                     transfer_type |-> transfer_type,
                     direction |-> direction,
                     max_packet_size |-> IF max_packet_size.ok
                                         THEN BigToInt(max_packet_size.v) ELSE 0,
                     b_interval |-> IF b_interval.ok THEN BigToInt(b_interval.v) ELSE 0]]

\* parse_all_endpoints over the endpoint directories in the order the
\* directory reads yield them
RECURSIVE parse_all_endpoints(_)
parse_all_endpoints(dirs) ==
    IF dirs = <<>> THEN <<>>
    ELSE LET d == Head(dirs)
             rest == parse_all_endpoints(Tail(dirs))
             parsed == parse_endpoint(d)
         IN  IF starts_with(d.name, "ep_") /\ d.name # "ep_00" /\ parsed.ok
             THEN <<parsed.v>> \o rest
             ELSE rest

\* get_controller_id: the component before the first usb* component of the
\* link target when it looks like a PCI address, else bus<N>
RECURSIVE controller_from_link(_, _)
controller_from_link(components, i) ==
    IF i > Len(components) THEN [some |-> FALSE, v |-> ""]
    ELSE IF /\ starts_with(components[i], "usb")
            /\ i > 1
            /\ Len(components[i - 1]) >= 7
            /\ contains(components[i - 1], ":")
            /\ contains(components[i - 1], ".")
         THEN [some |-> TRUE, v |-> components[i - 1]]
         ELSE controller_from_link(components, i + 1)

get_controller_id(bus) ==
    LET link == "usb" \o ToString(bus)
        target == IF link \in DOMAIN sysfs THEN sysfs[link].link ELSE <<>>
        found == controller_from_link(target, 1)
    IN  IF found.some THEN found.v ELSE "bus" \o ToString(bus)

get_pci_address(bus) == get_controller_id(bus)

NoBus == [bus_num |-> 0, speed |-> "Full", devices |-> EmptyMap, controller_id |-> ""]

parse_bus(bus) ==
    LET path == "usb" \o ToString(bus)
        speed == read_attr_u32(path, "speed")
    IN  IF ~speed.ok THEN [ok |-> FALSE, v |-> NoBus]
        ELSE [ok |-> TRUE,
              v |-> [bus_num |-> bus,
                     speed |-> speed_or_full(speed.v),
                     devices |-> EmptyMap,
                     controller_id |-> get_controller_id(bus)]]

NoDevice == [path |-> "", speed |-> "Full", vendor_id |-> 0, product_id |-> 0,
             endpoints |-> <<>>, children |-> <<>>, is_configured |-> FALSE]

\* mutant: a device without a readable configuration value fails to parse
parse_device_NeedsConfiguration(name, dirs) ==
    LET speed == read_attr_u32(name, "speed")
        vendor_id == read_hex_attr_u16(name, "idVendor")
        product_id == read_hex_attr_u16(name, "idProduct")
        conf == read_attr_u8(name, "bConfigurationValue")
    IN  IF ~speed.ok \/ ~vendor_id.ok \/ ~product_id.ok \/ ~conf.ok
        THEN [ok |-> FALSE, v |-> NoDevice]
        ELSE [ok |-> TRUE,
              v |-> [path |-> name,
                     speed |-> speed_or_full(speed.v),
                     vendor_id |-> BigToInt(vendor_id.v),
                     product_id |-> BigToInt(product_id.v),
                     endpoints |-> IF BigToInt(conf.v) > 0 THEN parse_all_endpoints(dirs)
                                   ELSE <<>>,
                     children |-> <<>>,
                     is_configured |-> BigToInt(conf.v) > 0]]

\* mutant: an endpoint directory that does not parse fails the whole device
parse_device_StrictEndpoints(name, dirs) ==
    LET speed == read_attr_u32(name, "speed")
        vendor_id == read_hex_attr_u16(name, "idVendor")
        product_id == read_hex_attr_u16(name, "idProduct")
        conf == read_attr_u8(name, "bConfigurationValue")
        is_configured == conf.ok /\ BigToInt(conf.v) > 0
        strict == is_configured /\ \E i \in DOMAIN dirs :
                      dirs[i].name # "ep_00" /\ ~parse_endpoint(dirs[i]).ok
    IN  IF ~speed.ok \/ ~vendor_id.ok \/ ~product_id.ok \/ strict
        THEN [ok |-> FALSE, v |-> NoDevice]
        ELSE [ok |-> TRUE,
              v |-> [path |-> name,
                     speed |-> speed_or_full(speed.v),
                     vendor_id |-> BigToInt(vendor_id.v),
                     product_id |-> BigToInt(product_id.v),
                     endpoints |-> IF is_configured THEN parse_all_endpoints(dirs)
                                   ELSE <<>>,
                     children |-> <<>>,
                     is_configured |-> is_configured]]

\* parse_device; dirs is the device's endpoint directories in the order read
parse_device(name, dirs) ==
    LET speed == read_attr_u32(name, "speed")
        vendor_id == read_hex_attr_u16(name, "idVendor")
        product_id == read_hex_attr_u16(name, "idProduct")
        conf == read_attr_u8(name, "bConfigurationValue")
        is_configured == conf.ok /\ BigToInt(conf.v) > 0
    IN  IF ~speed.ok \/ ~vendor_id.ok \/ ~product_id.ok THEN [ok |-> FALSE, v |-> NoDevice]
        ELSE [ok |-> TRUE,
              v |-> [path |-> name,
                     speed |-> speed_or_full(speed.v),
                     vendor_id |-> BigToInt(vendor_id.v),
                     product_id |-> BigToInt(product_id.v),
                     endpoints |-> IF is_configured THEN parse_all_endpoints(dirs)
                                   ELSE <<>>,
                     children |-> <<>>,
                     is_configured |-> is_configured]]

-----------------------------------------------------------------------------
(* sysfs/parser.rs: parse_topology *)

\* every order in which an iteration can yield the elements of a set
Orders(S) ==
    {f \in [1 .. Cardinality(S) -> S] : \A i, j \in DOMAIN f : f[i] = f[j] => i = j}

\* lines 64-84: the controller entry is fetched or created, the bus is put in
\* its usb2 or usb3 slot, and the bus is inserted
discover_bus(topo, bus) ==
    LET controller_id == get_controller_id(bus.bus_num)
        entry == IF controller_id \in DOMAIN topo.controllers
                 THEN topo.controllers[controller_id]
                 ELSE [id |-> controller_id,
                       pci_address |-> get_pci_address(bus.bus_num),
                       usb2_bus |-> -1, usb3_bus |-> -1, label |-> None]
        controller == IF is_superspeed(bus.speed)
                      THEN [entry EXCEPT !.usb3_bus = bus.bus_num]
                      ELSE [entry EXCEPT !.usb2_bus = bus.bus_num]
    IN  [controllers |-> Put(topo.controllers, controller_id, controller),
         buses |-> Put(topo.buses, bus.bus_num, bus)]

\* mutant: a device whose bus is missing gets a bus made for it
insert_device_MakeBus(topo, device) ==
    LET num == bus_num(device.path)
        b == IF num \in DOMAIN topo.buses THEN topo.buses[num]
             ELSE [NoBus EXCEPT !.bus_num = num]
    IN  IF num # -1
        THEN [topo EXCEPT !.buses =
                 Put(topo.buses, num,
                     [b EXCEPT !.devices = Put(b.devices, device.path, device)])]
        ELSE topo

\* mutant: a device whose bus is missing goes into some bus that exists
insert_device_AnyBus(topo, device) ==
    LET num == bus_num(device.path)
        any == IF num \in DOMAIN topo.buses \/ DOMAIN topo.buses = {} THEN num
               ELSE CHOOSE b \in DOMAIN topo.buses : TRUE
    IN  IF any \in DOMAIN topo.buses
        THEN [topo EXCEPT !.buses[any].devices = Put(@, device.path, device)]
        ELSE topo

\* lines 102-106: the device goes into the bus its path names, if there is one
insert_device(topo, device) ==
    LET num == bus_num(device.path)
    IN  IF num # -1 /\ num \in DOMAIN topo.buses
        THEN [topo EXCEPT !.buses[num].devices = Put(@, device.path, device)]
        ELSE topo

\* lines 118-128: each path, in the order given, is pushed onto its parent's
\* children unless the parent is a root hub, is missing or has it already
RECURSIVE wire_children(_, _)
wire_children(devices, paths) ==
    IF paths = <<>> THEN devices
    ELSE LET path == Head(paths)
             parent_path == parent(path)
             next ==
                 IF /\ parent_path.some
                    /\ ~is_root_hub(parent_path.v)
                    /\ parent_path.v \in DOMAIN devices
                    /\ \A i \in DOMAIN devices[parent_path.v].children :
                           devices[parent_path.v].children[i] # path
                 THEN [devices EXCEPT ![parent_path.v].children = Append(@, path)]
                 ELSE devices
         IN  wire_children(next, Tail(paths))

\* sort_by(|a, b| a.0.cmp(&b.0)): a stable sort by path string
RECURSIVE insert_sorted(_, _)
insert_sorted(sorted, path) ==
    IF sorted = <<>> THEN <<path>>
    ELSE IF StrLess(path, Head(sorted)) THEN <<path>> \o sorted
    ELSE <<Head(sorted)>> \o insert_sorted(Tail(sorted), path)

RECURSIVE sort_paths_from(_, _)
sort_paths_from(paths, i) ==
    IF i = 0 THEN <<>> ELSE insert_sorted(sort_paths_from(paths, i - 1), paths[i])

\* mutant: the children are sorted in descending order
sort_children_Descending(paths) ==
    LET sorted == sort_paths_from(paths, Len(paths))
    IN  [i \in 1 .. Len(sorted) |-> sorted[Len(sorted) + 1 - i]]

\* mutant: the children are left in the order they were pushed
sort_children_Unsorted(paths) == paths

sort_children(paths) == sort_paths_from(paths, Len(paths))

\* the keys of a map in some iteration order
RECURSIVE values_order(_)
values_order(S) ==
    IF S = {} THEN <<>>
    ELSE LET p == CHOOSE q \in S : TRUE IN <<p>> \o values_order(S \ {p})

\* topology.rs, collect_devices_recursive: the device is pushed, then each
\* stored child that the map holds is collected in turn
RECURSIVE collect_devices_recursive(_, _, _)
RECURSIVE collect_children(_, _, _)
collect_devices_recursive(devices, path, result) ==
    collect_children(devices, devices[path].children, Append(result, path))

collect_children(devices, children, result) ==
    IF children = <<>> THEN result
    ELSE collect_children(devices, Tail(children),
             IF Head(children) \in DOMAIN devices
             THEN collect_devices_recursive(devices, Head(children), result)
             ELSE result)

\* the depth-0 devices of the map, sorted by path string
root_devices(bus) ==
    LET roots == values_order({p \in DOMAIN bus.devices : depth(p) = 0})
    IN  sort_paths_from(roots, Len(roots))

RECURSIVE collect_roots(_, _, _)
collect_roots(devices, roots, result) ==
    IF roots = <<>> THEN result
    ELSE collect_roots(devices, Tail(roots),
             collect_devices_recursive(devices, Head(roots), result))

\* mutant: the depth-0 devices are taken in descending order
devices_tree_order_Descending(bus) ==
    collect_roots(bus.devices, sort_children_Descending(root_devices(bus)), <<>>)

\* mutant: every device of the map is a starting point
devices_tree_order_AllStart(bus) ==
    LET all == values_order(DOMAIN bus.devices)
    IN  collect_roots(bus.devices, sort_paths_from(all, Len(all)), <<>>)

\* topology.rs, devices_tree_order: the paths of the devices it returns
devices_tree_order(bus) == collect_roots(bus.devices, root_devices(bus), <<>>)

\* topology.rs, device_count
device_count(bus) == Cardinality(DOMAIN bus.devices)

\* parse_topology is entered: the first read_dir
StartBuild(limit) ==
    /\ pass = "idle"
    /\ Len(snapshots) < limit
    /\ pass' = "pass1"
    /\ todo' = DOMAIN sysfs
    /\ topology' = EmptyTopology
    /\ UNCHANGED <<sysfs, bus_todo, snapshots>>

\* first pass, one entry: a root hub usbN is parsed and registered
Pass1Entry(name) ==
    /\ pass = "pass1"
    /\ name \in todo
    /\ todo' = todo \ {name}
    /\ LET bus_num_str == strip_prefix(name, "usb")
           num == from_str_radix(bus_num_str.v, 10, U8Max)
           bus == parse_bus(BigToInt(num.v))
       IN  IF bus_num_str.some /\ num.ok /\ bus.ok
           THEN topology' = discover_bus(topology, bus.v)
           ELSE UNCHANGED topology
    /\ UNCHANGED <<sysfs, pass, bus_todo, snapshots>>

\* mutant: the second read_dir starts while root-hub entries are still to come
BeginPass2_Early ==
    /\ pass = "pass1"
    /\ pass' = "pass2"
    /\ todo' = DOMAIN sysfs
    /\ UNCHANGED <<sysfs, bus_todo, topology, snapshots>>

\* the first pass is over: the second read_dir
BeginPass2 ==
    /\ pass = "pass1"
    /\ todo = {}
    /\ pass' = "pass2"
    /\ todo' = DOMAIN sysfs
    /\ UNCHANGED <<sysfs, bus_todo, topology, snapshots>>

\* second pass, one entry: a device is parsed and inserted into its bus
Pass2Entry(name) ==
    /\ pass = "pass2"
    /\ name \in todo
    /\ todo' = todo \ {name}
    /\ IF contains(name, "-") /\ ~contains(name, ":")
       THEN \E dirs \in Orders(sysfs[name].endpoints) :
                LET device == parse_device(name, dirs)
                IN  IF device.ok
                    THEN topology' = insert_device(topology, device.v)
                    ELSE UNCHANGED topology
       ELSE UNCHANGED topology
    /\ UNCHANGED <<sysfs, pass, bus_todo, snapshots>>

\* the second pass is over: the third one goes over the buses
BeginPass3 ==
    /\ pass = "pass2"
    /\ todo = {}
    /\ pass' = "pass3"
    /\ bus_todo' = DOMAIN topology.buses
    /\ UNCHANGED <<sysfs, todo, topology, snapshots>>

\* third pass, one bus: children are wired in the order the key set yields
\* the paths, then every children list of the bus is sorted
Pass3Bus(num) ==
    /\ pass = "pass3"
    /\ num \in bus_todo
    /\ bus_todo' = bus_todo \ {num}
    /\ \E paths \in Orders(DOMAIN topology.buses[num].devices) :
           LET wired == wire_children(topology.buses[num].devices, paths)
           IN  topology' = [topology EXCEPT !.buses[num].devices =
                   [p \in DOMAIN wired |->
                       [wired[p] EXCEPT !.children = sort_children(@)]]]
    /\ UNCHANGED <<sysfs, pass, todo, snapshots>>

\* Ok(topology)
ReturnOk ==
    /\ pass = "pass3"
    /\ bus_todo = {}
    /\ pass' = "idle"
    /\ snapshots' = Append(snapshots, [ok |-> TRUE, error |-> None, topology |-> topology])
    /\ topology' = EmptyTopology
    /\ UNCHANGED <<sysfs, todo, bus_todo>>

\* a read_dir call, or an entry it yields, fails: the ? operators return
\* Err(SysfsError::Io)
ReadDirError ==
    /\ pass \in {"pass1", "pass2"}
    /\ todo # {}
    /\ pass' = "idle"
    /\ todo' = {}
    /\ snapshots' = Append(snapshots, [ok |-> FALSE, error |-> "Io",
                                        topology |-> EmptyTopology])
    /\ topology' = EmptyTopology
    /\ UNCHANGED <<sysfs, bus_todo>>

BuildIdle ==
    /\ sysfs = EmptyMap
    /\ pass = "idle"
    /\ todo = {}
    /\ bus_todo = {}
    /\ topology = EmptyTopology
    /\ snapshots = <<>>

-----------------------------------------------------------------------------
(* The external enumeration the build is exercised on: two root hubs, a hub  *)
(* with two ports in use on bus 1, a device on bus 2, a device whose path    *)
(* names bus 99, and an interface entry.  Each entry's attribute files are   *)
(* drawn from a few contents.                                                *)

\* one entry: its attribute files, the endpoint directories found in its
\* interface directories (and its own ep_00), and the target of its link
Attrs(speed, idVendor, idProduct, bConfigurationValue, endpoints, link) ==
    [speed |-> speed, idVendor |-> idVendor, idProduct |-> idProduct,
     bConfigurationValue |-> bConfigurationValue, endpoints |-> endpoints,
     link |-> link]

EpDir(name, type, direction, bEndpointAddress, bInterval, wMaxPacketSize) ==
    [name |-> name, type |-> type, direction |-> direction,
     bEndpointAddress |-> bEndpointAddress, bInterval |-> bInterval,
     wMaxPacketSize |-> wMaxPacketSize]

EpControl0 == EpDir("ep_00", "Control\n", "both\n", "00\n", "00\n", "0040\n")
EpHubIn == EpDir("ep_81", "Interrupt\n", "in\n", "81\n", "0c\n", "0001\n")
EpKbdIn == EpDir("ep_81", "Interrupt\n", "in\n", "81\n", "0a\n", "0008\n")
EpIsocIn == EpDir("ep_82", "Isoc\n", "in\n", "82\n", "01\n", "1400\n")
EpBulkOut == EpDir("ep_02", "Bulk\n", "out\n", "02\n", "00\n", "0200\n")
EpAudioOut == EpDir("ep_01", "Isoc\n", "out\n", "01\n", "01\n", "00c0\n")

NoLink == <<>>
PciLink(name) == <<"..", "..", "..", "devices", "pci0000:00", "0000:00:14.0", name>>

RootHub(speed, link) == Attrs(speed, "1d6b\n", "0002\n", "1\n", {}, link)
Hub == Attrs("480\n", "05e3\n", "0608\n", "1\n", {EpHubIn}, NoLink)
LowKbd == Attrs("1\n", "046d\n", "c31c\n", "1\n", {EpKbdIn, EpControl0}, NoLink)
HighCam == Attrs("480\n", "046d\n", "085e\n", "1\n", {EpIsocIn, EpBulkOut}, NoLink)
FullAudio == Attrs("12\n", "08bb\n", "2902\n", "1\n", {EpAudioOut}, NoLink)
Unconfigured == Attrs("480\n", "046d\n", "085e\n", "", {EpIsocIn}, NoLink)
NoSpeed == Attrs("1.5\n", "046d\n", "c31c\n", "1\n", {EpKbdIn}, NoLink)
BadVendor == Attrs("12\n", "", "c31c\n", "1\n", {EpKbdIn}, NoLink)
BadProduct == Attrs("480\n", "046d\n", "zz\n", "1\n", {EpIsocIn}, NoLink)
Interface == Attrs("", "", "", "", {}, NoLink)

Usb1Options == {RootHub("480\n", PciLink("usb1")), RootHub("", PciLink("usb1"))}
Usb2Options == {RootHub("480\n", PciLink("usb2")), RootHub("5000\n", PciLink("usb2")),
                RootHub("5000\n", NoLink)}

Enumeration(r1, r2, d1, d2, d3) ==
    [n \in {"usb1", "usb2", "1-1", "1-1.1", "1-1.2", "2-1", "99-1", "1-1:1.0"} |->
        CASE n = "usb1" -> r1 [] n = "usb2" -> r2 [] n = "1-1" -> d1
          [] n = "1-1.1" -> d2 [] n = "1-1.2" -> d3 [] n = "2-1" -> FullAudio
          [] n = "99-1" -> LowKbd [] n = "1-1:1.0" -> Interface]

Enumerations ==
    {Enumeration(r1, r2, d1, d2, d3) :
        r1 \in Usb1Options, r2 \in Usb2Options,
        d1 \in {Hub, NoSpeed}, d2 \in {LowKbd, Unconfigured},
        d3 \in {HighCam, BadVendor, BadProduct}}

\* the enumerations that are built more than once
FixedEnumerations ==
    {Enumeration(RootHub("480\n", PciLink("usb1")), r2, Hub, LowKbd, HighCam) :
        r2 \in Usb2Options}

\* how many builds are run over one enumeration
MaxBuilds == 2

\* an enumeration with three devices on the root hub's ports, two below the
\* first of them and one a level further down; the two hubs either parse or
\* have a speed file that does not
TreeEnumeration(h1, h2) ==
    [n \in {"usb1", "1-2", "1-10", "1-1", "1-1.2", "1-1.1", "1-1.1.3"} |->
        CASE n = "usb1" -> RootHub("480\n", PciLink("usb1"))
          [] n = "1-1" -> h1 [] n = "1-1.1" -> h2
          [] n = "1-2" -> LowKbd [] n = "1-10" -> LowKbd
          [] n = "1-1.2" -> LowKbd [] n = "1-1.1.3" -> LowKbd]

\* endpoint directories whose type or direction file holds no known token
EpBadType == EpDir("ep_83", "Weird\n", "in\n", "83\n", "04\n", "0040\n")
EpBadDirection == EpDir("ep_03", "Interrupt\n", "both\n", "03\n", "04\n", "0040\n")
EpNoType == EpDir("ep_84", "", "in\n", "84\n", "04\n", "0040\n")

\* the contents a bConfigurationValue file is given: missing or empty, zero,
\* not a number, beyond u8, and two configured values
ConfigurationValues == {"", "0\n", "x\n", "256\n", "1\n", "2\n"}

\* an enumeration with a device whose configuration value varies and a
\* configured device whose endpoint directories vary
DeviceEnumeration(conf, eps) ==
    [n \in {"usb1", "1-1", "1-2"} |->
        CASE n = "usb1" -> RootHub("480\n", PciLink("usb1"))
          [] n = "1-1" -> Attrs("480\n", "046d\n", "085e\n", conf, {EpIsocIn}, NoLink)
          [] n = "1-2" -> Attrs("480\n", "046d\n", "c31c\n", "1\n", eps, NoLink)]

DeviceEnumerations ==
    {DeviceEnumeration(conf, eps) :
        conf \in ConfigurationValues,
        eps \in SUBSET {EpKbdIn, EpBadType, EpBadDirection, EpNoType}}

TreeEnumerations == {TreeEnumeration(h1, h2) : h1 \in {Hub, NoSpeed}, h2 \in {Hub, NoSpeed}}

-----------------------------------------------------------------------------
(* The speed model exercised on its own: a magnitude is classified, then    *)
(* the class (or the callers' fallback, Full) is queried.                   *)

MaxMbps == 40
MbpsInputs == (0 .. MaxMbps) \cup {480, 999, 5000, 10000, 20000}

NoSpeedOut == [done |-> FALSE, speed |-> None, raw |-> <<>>, max_periodic |-> <<>>,
               frame_period |-> 0, superspeed |-> FALSE]

SpeedIdle == sp_mbps = 0 /\ sp_class = "unset" /\ sp_out = NoSpeedOut

FromMbps ==
    /\ sp_class = "unset"
    /\ sp_class' = from_mbps(Digits(sp_mbps))
    /\ UNCHANGED <<sp_mbps, sp_out>>

QuerySpeed ==
    /\ sp_class # "unset"
    /\ ~sp_out.done
    /\ LET speed == speed_or_full(Digits(sp_mbps))
       IN  sp_out' = [done |-> TRUE, speed |-> speed,
                      raw |-> raw_bandwidth_bps(speed),
                      max_periodic |-> max_periodic_bandwidth_bps(speed),
                      frame_period |-> frame_period_us(speed),
                      superspeed |-> is_superspeed(speed)]
    /\ UNCHANGED <<sp_mbps, sp_class>>

-----------------------------------------------------------------------------
(* The endpoint model exercised on its own: bandwidth_bps applied to an     *)
(* endpoint and a device speed drawn from bounded sets.                     *)

MaxCode == 17
MaxBase == 2
IntervalCodes == (0 .. MaxCode) \cup {128, 255}
BaseSizes == (0 .. MaxBase) \cup {8, 64, 512, 1023, 1024, 2047}
PacketFields == {hi * 8192 + m * 2048 + b : hi \in 0 .. 7, m \in 0 .. 3, b \in BaseSizes}

NoBw == [done |-> FALSE, fault |-> "none", interval |-> 0, mult |-> 0,
         packet_size |-> 0, value |-> <<>>]
IdleEp == [transfer_type |-> "Control", max_packet_size |-> 0, b_interval |-> 0]

EndpointIdle == ep = IdleEp /\ device_speed = "Full" /\ bw = NoBw

CalcBandwidth ==
    /\ ~bw.done
    /\ bw' = [done |-> TRUE,
              fault |-> bandwidth_fault(ep, device_speed),
              interval |-> interval_us(ep, device_speed),
              mult |-> multiplier(ep),
              packet_size |-> base_packet_size(ep),
              value |-> bandwidth_bps(ep, device_speed)]
    /\ UNCHANGED <<ep, device_speed>>

-----------------------------------------------------------------------------
(* The device-path methods exercised on their own: a DevicePath is made     *)
(* from a string and its methods are called.  The strings are the paths of  *)
(* the grammar <bus>-<port>[.<port>]*, root paths usbN, interface names,   *)
(* and malformed variants of them.                                          *)

\* the deepest path has MaxDepth '.' separators
MaxDepth == 2

Ports == {"1", "2", "3"}

RECURSIVE PortPathsOf(_)
PortPathsOf(d) ==
    IF d = 0 THEN Ports ELSE {p \o "." \o q : p \in PortPathsOf(d - 1), q \in Ports}

PortPaths == UNION {PortPathsOf(d) : d \in 0 .. MaxDepth}

BusParts == {"1", "3", "12", "255"}
OddBusParts == {"", "x", "256", "usb3"}

GrammarPaths == {b \o "-" \o p : b \in BusParts, p \in PortPaths}
RootPaths == {"usb" \o b : b \in BusParts}

PathStrings ==
    GrammarPaths \cup RootPaths
        \cup {b \o "-" \o p : b \in OddBusParts, p \in PortPathsOf(0) \cup PortPathsOf(1)}
        \cup {"", "3", "usb", "usbx", "usb256", "bus1", "1-1:1.0", "3-1.2:1.0"}

NoPathOut == [done |-> FALSE, parent |-> NoPath, bus_num |-> -1, port_path |-> NoPath,
              depth |-> 0, is_root_hub |-> FALSE]

PathIdle == path_in = "" /\ path_out = NoPathOut

QueryPath ==
    /\ ~path_out.done
    /\ path_out' = [done |-> TRUE,
                    parent |-> parent(path_in),
                    bus_num |-> bus_num(path_in),
                    port_path |-> port_path(path_in),
                    depth |-> depth(path_in),
                    is_root_hub |-> is_root_hub(path_in)]
    /\ UNCHANGED path_in

-----------------------------------------------------------------------------
(* model/bandwidth.rs *)

\* u64::MAX
U64Max == BigSub(Two64, <<1>>)

saturating_add(a, b) == IF FitsU64(BigAdd(a, b)) THEN BigAdd(a, b) ELSE U64Max

saturating_sub(a, b) == IF BigLess(a, b) THEN <<>> ELSE BigSub(a, b)

BandwidthPool_new(speed) ==
    [max_periodic_bps |-> max_periodic_bandwidth_bps(speed),
     used_periodic_bps |-> <<>>,
     raw_bandwidth_bps |-> raw_bandwidth_bps(speed),
     speed |-> speed]

with_usage(speed, used_bps) ==
    [max_periodic_bps |-> max_periodic_bandwidth_bps(speed),
     used_periodic_bps |-> used_bps,
     raw_bandwidth_bps |-> raw_bandwidth_bps(speed),
     speed |-> speed]

\* mutant: the quotient is not scaled to a percentage
periodic_usage_percent_Fraction(p) ==
    IF p.max_periodic_bps = <<>> THEN F64Zero
    ELSE f64_div(u64_as_f64(p.used_periodic_bps), u64_as_f64(p.max_periodic_bps))

\* (used as f64 / max as f64) * 100.0, or 0.0 when max is 0
periodic_usage_percent(p) ==
    IF p.max_periodic_bps = <<>> THEN F64Zero
    ELSE f64_mul_int(f64_div(u64_as_f64(p.used_periodic_bps),
                             u64_as_f64(p.max_periodic_bps)), 100)

available_periodic_bps(p) == saturating_sub(p.max_periodic_bps, p.used_periodic_bps)

\* mutant: the threshold is met at 80.0 already
is_high_usage_Inclusive(p) ==
    \/ f64_gt_int(periodic_usage_percent(p), 80)
    \/ f64_eq_int(periodic_usage_percent(p), 80)

is_high_usage(p) == f64_gt_int(periodic_usage_percent(p), 80)

is_critical(p) == f64_gt_int(periodic_usage_percent(p), 95)

add_usage(p, bps) ==
    [p EXCEPT !.used_periodic_bps = saturating_add(@, bps)]

-----------------------------------------------------------------------------
(* main.rs: the ordering of the recommend command *)

\* topology.rs, buses_sorted: the bus numbers in ascending order
RECURSIVE buses_sorted_from(_)
buses_sorted_from(nums) ==
    IF nums = {} THEN <<>>
    ELSE LET least == CHOOSE n \in nums : \A k \in nums : n <= k
         IN  <<least>> \o buses_sorted_from(nums \ {least})

buses_sorted(topo) == buses_sorted_from(DOMAIN topo.buses)

\* a - b on u64 where the overflow check is compiled out
wrapping_sub(a, b) == IF BigLess(a, b) THEN BigSub(Two64, BigSub(b, a)) ELSE BigSub(a, b)

\* bus.speed.max_periodic_bandwidth_bps() - bus.periodic_bandwidth_used_bps()
\* overflows
avail_overflows(bus) ==
    BigLess(max_periodic_bandwidth_bps(bus.speed), periodic_bandwidth_used_bps(bus))

\* the key the comparator computes for a bus when it does not panic
avail_key(bus) ==
    wrapping_sub(max_periodic_bandwidth_bps(bus.speed), periodic_bandwidth_used_bps(bus))

\* the key the pool's available_periodic_bps gives for the same bus
avail_key_saturating(bus) ==
    available_periodic_bps(with_usage(bus.speed, periodic_bandwidth_used_bps(bus)))

\* sort_by(|a, b| b_avail.cmp(&a_avail)): a stable sort, largest key first;
\* keys maps a bus number to its key
RECURSIVE insert_by_avail(_, _, _)
insert_by_avail(sorted, num, keys) ==
    IF sorted = <<>> THEN <<num>>
    ELSE IF BigLess(keys[Head(sorted)], keys[num]) THEN <<num>> \o sorted
    ELSE <<Head(sorted)>> \o insert_by_avail(Tail(sorted), num, keys)

RECURSIVE sort_by_avail(_, _, _)
sort_by_avail(nums, i, keys) ==
    IF i = 0 THEN <<>>
    ELSE insert_by_avail(sort_by_avail(nums, i - 1, keys), nums[i], keys)

\* the outcomes of the ordering: with overflow checks the subtraction panics
\* as soon as the comparator meets a bus that uses more than its maximum
\* (the comparator runs when there are two buses or more); without them the
\* difference wraps
recommend_outcomes(topo) ==
    LET nums == buses_sorted(topo)
        keys == [n \in DOMAIN topo.buses |-> avail_key(topo.buses[n])]
        wrapped == [done |-> TRUE, panic |-> FALSE,
                    order |-> sort_by_avail(nums, Len(nums), keys)]
    IN  IF Len(nums) >= 2 /\ \E n \in DOMAIN topo.buses : avail_overflows(topo.buses[n])
        THEN {[done |-> TRUE, panic |-> TRUE, order |-> <<>>], wrapped}
        ELSE {wrapped}

-----------------------------------------------------------------------------
(* ui/app.rs: the App's topology *)

\* topology.rs, all_device_paths
all_device_paths(topo) ==
    UNION {DOMAIN topo.buses[n].devices : n \in DOMAIN topo.buses}

\* App::new
App_new(topo) ==
    [created |-> TRUE, topology |-> topo, startup_devices |-> all_device_paths(topo),
     discovery_order |-> <<>>]

\* the loop of update_topology over the paths in the order they are yielded
RECURSIVE discover(_, _, _)
discover(startup_devices, discovery_order, paths) ==
    IF paths = <<>> THEN discovery_order
    ELSE discover(startup_devices,
                  IF /\ Head(paths) \notin startup_devices
                     /\ \A i \in DOMAIN discovery_order : discovery_order[i] # Head(paths)
                  THEN Append(discovery_order, Head(paths))
                  ELSE discovery_order,
                  Tail(paths))

\* mutant: the devices of the old topology are kept beside the new ones
update_topology_Merge(a, topo, paths) ==
    [a EXCEPT !.discovery_order = discover(a.startup_devices, @, paths),
              !.topology = [topo EXCEPT !.buses =
                  [n \in DOMAIN topo.buses |->
                      IF n \in DOMAIN a.topology.buses
                      THEN [topo.buses[n] EXCEPT !.devices =
                               [q \in DOMAIN a.topology.buses[n].devices
                                        \cup DOMAIN topo.buses[n].devices |->
                                   IF q \in DOMAIN topo.buses[n].devices
                                   THEN topo.buses[n].devices[q]
                                   ELSE a.topology.buses[n].devices[q]]]
                      ELSE topo.buses[n]]]]

\* App::update_topology; paths is all_device_paths in the order yielded
update_topology(a, topo, paths) ==
    [a EXCEPT !.discovery_order = discover(a.startup_devices, @, paths),
              !.topology = topo]

-----------------------------------------------------------------------------
(* config/loader.rs, ui/app.rs, main.rs: device labels *)

HexDigits == "0123456789abcdef"

\* format!("{:x}", n)
RECURSIVE format_x(_)
format_x(n) ==
    IF n < 16 THEN SubSeq(HexDigits, n + 1, n + 1)
    ELSE format_x(n \div 16) \o SubSeq(HexDigits, (n % 16) + 1, (n % 16) + 1)

\* format!("{:04x}", n): zero-padded to at least four digits
RECURSIVE pad_04(_)
pad_04(str) == IF Len(str) >= 4 THEN str ELSE pad_04("0" \o str)
format_04x(n) == pad_04(format_x(n))

NoString == [some |-> FALSE, v |-> ""]
SomeString(str) == [some |-> TRUE, v |-> str]

\* Config::device_label with no physical location: product with serial,
\* product, then the legacy [devices] table
device_label(config_products, config_devices, path, vendor_id, product_id, serial) ==
    LET key_with_serial == format_04x(vendor_id) \o ":" \o format_04x(product_id)
                               \o ":" \o serial.v
        product_key == format_04x(vendor_id) \o ":" \o format_04x(product_id)
    IN  IF serial.some /\ key_with_serial \in DOMAIN config_products
        THEN SomeString(config_products[key_with_serial])
        ELSE IF product_key \in DOMAIN config_products
        THEN SomeString(config_products[product_key])
        ELSE IF path \in DOMAIN config_devices
        THEN SomeString(config_devices[path])
        ELSE NoString

\* UsbDevice::display_name
display_name(device) ==
    IF device.label.some THEN device.label.v
    ELSE IF device.product.some THEN device.product.v
    ELSE IF device.manufacturer.some THEN device.manufacturer.v
    ELSE format_04x(device.vendor_id) \o ":" \o format_04x(device.product_id)

\* the last loop of Config::apply_defaults_from_topology: entry().or_insert
RECURSIVE apply_product_defaults(_, _)
apply_product_defaults(config_products, devices) ==
    IF devices = <<>> THEN config_products
    ELSE LET device == Head(devices)
             key == format_04x(device.vendor_id) \o ":" \o format_04x(device.product_id)
             label == IF device.product.some THEN device.product.v
                      ELSE IF device.manufacturer.some THEN device.manufacturer.v
                      ELSE "Unknown Device"
         IN  apply_product_defaults(
                 IF device.is_hub \/ key \in DOMAIN config_products
                 THEN config_products
                 ELSE Put(config_products, key, label),
                 Tail(devices))

\* mutant: the label of a device is looked up under its path alone
item_label_ByPath(pending, config_products, config_devices, device, with_serial) ==
    IF device.path \in DOMAIN pending THEN pending[device.path]
    ELSE IF device.path \in DOMAIN config_products THEN config_products[device.path]
    ELSE display_name(device)

\* App::add_device_item, the label: pending label, config label, device name.
\* The call passes four arguments to the five parameters of device_label;
\* with_serial says whether the serial parameter receives the device's serial.
item_label(pending, config_products, config_devices, device, with_serial) ==
    IF device.path \in DOMAIN pending THEN pending[device.path]
    ELSE LET found == device_label(config_products, config_devices, device.path,
                                   device.vendor_id, device.product_id,
                                   IF with_serial THEN device.serial ELSE NoString)
         IN  IF found.some THEN found.v ELSE display_name(device)

\* label.replace('\\', "\\\\").replace('"', "\\\"")
RECURSIVE escape_label(_)
escape_label(label) ==
    IF label = "" THEN ""
    ELSE LET c == SubSeq(label, 1, 1)
         IN  (IF c = "\\" THEN "\\\\" ELSE IF c = "\"" THEN "\\\"" ELSE c)
                 \o escape_label(SubSeq(label, 2, Len(label)))

\* the entries write_pending_labels adds to [products], in iteration order
new_entries(pending, keys) ==
    [i \in DOMAIN keys |-> [key |-> keys[i], value |-> escape_label(pending[keys[i]])]]

\* for (key, label) in pending_labels.drain() { products.insert(key, label) }
merge_pending(config_products, pending) ==
    [k \in DOMAIN config_products \cup DOMAIN pending |->
        IF k \in DOMAIN pending THEN pending[k] ELSE config_products[k]]

-----------------------------------------------------------------------------
(* config/loader.rs: loading a configuration with inheritance *)

\* toml::Value: a table, an array or a string
TomlTable(map) == [t |-> "table", v |-> map]
TomlArray(seq) == [t |-> "array", v |-> seq]
TomlString(str) == [t |-> "string", v |-> str]

\* merge_toml_values: tables merge key by key, arrays are concatenated, and
\* anything else is replaced by the overlay
RECURSIVE merge_toml_values(_, _)
merge_toml_values(base, overlay) ==
    IF base.t = "table" /\ overlay.t = "table"
    THEN TomlTable([k \in DOMAIN base.v \cup DOMAIN overlay.v |->
                       IF k \notin DOMAIN overlay.v THEN base.v[k]
                       ELSE IF k \in DOMAIN base.v
                       THEN merge_toml_values(base.v[k], overlay.v[k])
                       ELSE overlay.v[k]])
    ELSE IF base.t = "array" /\ overlay.t = "array"
    THEN TomlArray(base.v \o overlay.v)
    ELSE overlay

\* Path::canonicalize within one directory: "./name" is the file "name"
canonicalize(path) ==
    IF Len(path) > 2 /\ SubSeq(path, 1, 2) = "./" THEN SubSeq(path, 3, Len(path))
    ELSE path

\* mutant: no file counts as loaded before
already_seen_Never(seen_set, canonical) == FALSE

\* !seen.insert(canonical): the file was loaded earlier in this load
already_seen(seen_set, canonical) == canonical \in seen_set

\* the paths the inherit key names: one for a string, the items of an array
inherited_paths(inherit) ==
    IF inherit.kind = "string" THEN <<inherit.path>>
    ELSE IF inherit.kind = "array" THEN inherit.paths
    ELSE <<>>

\* merged.try_into::<Config>() for tables whose entries have the types of
\* Config's fields; an absent field takes its serde default
strings_of(table) == [k \in DOMAIN table.v |-> table.v[k].v]
config_from(doc) ==
    [products |-> IF "products" \in DOMAIN doc.v THEN strings_of(doc.v["products"])
                  ELSE EmptyMap,
     physical_ports |-> IF "physical_ports" \in DOMAIN doc.v
                        THEN [i \in DOMAIN doc.v["physical_ports"].v |->
                                 doc.v["physical_ports"].v[i].v]
                        ELSE <<>>,
     theme |-> IF "settings" \in DOMAIN doc.v /\ "theme" \in DOMAIN doc.v["settings"].v
               THEN doc.v["settings"].v["theme"].v
               ELSE "dark"]

-----------------------------------------------------------------------------
(* The components that are not running *)

NoPool == [max_periodic_bps |-> <<>>, used_periodic_bps |-> <<>>,
           raw_bandwidth_bps |-> <<>>, speed |-> None]
PoolIdle == pool = NoPool /\ pool_adds = 0

NoRecommendation == [done |-> FALSE, panic |-> FALSE, order |-> <<>>]
RecommendIdle == recommended = NoRecommendation

NoApp == [created |-> FALSE, topology |-> EmptyTopology, startup_devices |-> {},
          discovery_order |-> <<>>]
AppIdle == app = NoApp

\* Option<EditState>
NoEdit == [some |-> FALSE, device_path |-> "", input |-> ""]

LabelIdle ==
    /\ pending_labels = EmptyMap
    /\ products = EmptyMap
    /\ edit_mode = NoEdit
    /\ config_file = <<>>
    /\ items = EmptyMap

NoConfig == [products |-> EmptyMap, physical_ports |-> <<>>, theme |-> ""]
NoLoadResult == [done |-> FALSE, ok |-> FALSE, error |-> "", value |-> NoConfig]
LoadIdle == files = EmptyMap /\ seen = {} /\ stack = <<>> /\ load_result = NoLoadResult

-----------------------------------------------------------------------------
(* Specifications *)

InitSpeed ==
    /\ sp_mbps \in MbpsInputs
    /\ sp_class = "unset"
    /\ sp_out = NoSpeedOut
    /\ EndpointIdle
    /\ BuildIdle
    /\ PathIdle
    /\ PoolIdle
    /\ RecommendIdle
    /\ AppIdle
    /\ LabelIdle
    /\ LoadIdle

NextSpeed ==
    \/ FromMbps /\ UNCHANGED notSpeed
    \/ QuerySpeed /\ UNCHANGED notSpeed

SpecSpeed == InitSpeed /\ [][NextSpeed]_vars

InitEndpoint ==
    /\ ep \in [transfer_type : TransferType, max_packet_size : PacketFields,
                b_interval : IntervalCodes]
    /\ device_speed \in UsbSpeed
    /\ bw = NoBw
    /\ SpeedIdle
    /\ BuildIdle
    /\ PathIdle
    /\ PoolIdle
    /\ RecommendIdle
    /\ AppIdle
    /\ LabelIdle
    /\ LoadIdle

NextEndpoint == CalcBandwidth /\ UNCHANGED notEndpoint

SpecEndpoint == InitEndpoint /\ [][NextEndpoint]_vars

InitBuild ==
    /\ sysfs \in Enumerations
    /\ pass = "idle"
    /\ todo = {}
    /\ bus_todo = {}
    /\ topology = EmptyTopology
    /\ snapshots = <<>>
    /\ SpeedIdle
    /\ EndpointIdle
    /\ PathIdle
    /\ PoolIdle
    /\ RecommendIdle
    /\ AppIdle
    /\ LabelIdle
    /\ LoadIdle

NextBuild ==
    \/ StartBuild(1) /\ UNCHANGED notBuild
    \/ \E name \in DOMAIN sysfs : Pass1Entry(name) /\ UNCHANGED notBuild
    \/ BeginPass2 /\ UNCHANGED notBuild
    \/ \E name \in DOMAIN sysfs : Pass2Entry(name) /\ UNCHANGED notBuild
    \/ BeginPass3 /\ UNCHANGED notBuild
    \/ \E num \in bus_todo : Pass3Bus(num) /\ UNCHANGED notBuild
    \/ ReturnOk /\ UNCHANGED notBuild
    \/ ReadDirError /\ UNCHANGED notBuild

SpecBuild == InitBuild /\ [][NextBuild]_vars

InitPath ==
    /\ path_in \in PathStrings
    /\ path_out = NoPathOut
    /\ SpeedIdle
    /\ EndpointIdle
    /\ BuildIdle
    /\ PoolIdle
    /\ RecommendIdle
    /\ AppIdle
    /\ LabelIdle
    /\ LoadIdle

NextPath == QueryPath /\ UNCHANGED notPath

SpecPath == InitPath /\ [][NextPath]_vars

\* the build run MaxBuilds times over one fixed enumeration
InitTwice ==
    /\ sysfs \in FixedEnumerations
    /\ pass = "idle"
    /\ todo = {}
    /\ bus_todo = {}
    /\ topology = EmptyTopology
    /\ snapshots = <<>>
    /\ SpeedIdle
    /\ EndpointIdle
    /\ PathIdle
    /\ PoolIdle
    /\ RecommendIdle
    /\ AppIdle
    /\ LabelIdle
    /\ LoadIdle

NextTwice ==
    \/ StartBuild(MaxBuilds) /\ UNCHANGED notBuild
    \/ \E name \in DOMAIN sysfs : Pass1Entry(name) /\ UNCHANGED notBuild
    \/ BeginPass2 /\ UNCHANGED notBuild
    \/ \E name \in DOMAIN sysfs : Pass2Entry(name) /\ UNCHANGED notBuild
    \/ BeginPass3 /\ UNCHANGED notBuild
    \/ \E num \in bus_todo : Pass3Bus(num) /\ UNCHANGED notBuild
    \/ ReturnOk /\ UNCHANGED notBuild
    \/ ReadDirError /\ UNCHANGED notBuild

SpecTwice == InitTwice /\ [][NextTwice]_vars

\* one build over an enumeration with a deeper device tree
InitTree ==
    /\ sysfs \in TreeEnumerations
    /\ pass = "idle"
    /\ todo = {}
    /\ bus_todo = {}
    /\ topology = EmptyTopology
    /\ snapshots = <<>>
    /\ SpeedIdle
    /\ EndpointIdle
    /\ PathIdle
    /\ PoolIdle
    /\ RecommendIdle
    /\ AppIdle
    /\ LabelIdle
    /\ LoadIdle

SpecTree == InitTree /\ [][NextBuild]_vars

\* one build over an enumeration whose devices' configuration value and
\* endpoint directories vary
InitDevice ==
    /\ sysfs \in DeviceEnumerations
    /\ pass = "idle"
    /\ todo = {}
    /\ bus_todo = {}
    /\ topology = EmptyTopology
    /\ snapshots = <<>>
    /\ SpeedIdle
    /\ EndpointIdle
    /\ PathIdle
    /\ PoolIdle
    /\ RecommendIdle
    /\ AppIdle
    /\ LabelIdle
    /\ LoadIdle

SpecDevice == InitDevice /\ [][NextBuild]_vars

-----------------------------------------------------------------------------
(* The bandwidth pool exercised on its own: a pool is made by new, by        *)
(* with_usage or field by field, then add_usage is called on it.             *)

\* how many add_usage calls one pool gets
MaxAdds == 2

\* a percentage of a speed's periodic maximum (every maximum is a multiple
\* of 100)
PercentOfMax(speed, percent) ==
    BigMulSmall(BigDivSmall(max_periodic_bandwidth_bps(speed), 100), percent)

\* the used values a pool is made with: around the 80% and 95% thresholds and
\* the maximum of its speed, the two amounts of the unit test, and u64::MAX
UsageInputs(speed) ==
    LET around(n) == {BigSub(n, <<1>>), n, BigAdd(n, <<1>>)}
    IN  {<<>>, Big(0, 38400000), Big(0, 307200000), U64Max}
            \cup around(PercentOfMax(speed, 80))
            \cup around(PercentOfMax(speed, 95))
            \cup around(PercentOfMax(speed, 100))

AddInputs == {<<1>>, Big(0, 307200000), U64Max}

PoolNew(speed) ==
    /\ pool = NoPool
    /\ pool' = BandwidthPool_new(speed)
    /\ UNCHANGED pool_adds

PoolWithUsage(speed, used_bps) ==
    /\ pool = NoPool
    /\ pool' = with_usage(speed, used_bps)
    /\ UNCHANGED pool_adds

\* the fields are public: a pool written out with a maximum of 0
PoolLiteral(speed, used_bps) ==
    /\ pool = NoPool
    /\ pool' = [max_periodic_bps |-> <<>>, used_periodic_bps |-> used_bps,
                raw_bandwidth_bps |-> <<>>, speed |-> speed]
    /\ UNCHANGED pool_adds

AddUsage(bps) ==
    /\ pool # NoPool
    /\ pool_adds < MaxAdds
    /\ pool' = add_usage(pool, bps)
    /\ pool_adds' = pool_adds + 1

notPool == <<speedVars, endpointVars, buildVars, pathVars, recommendVars, appVars,
             labelVars, loadVars>>

InitPool ==
    /\ PoolIdle
    /\ SpeedIdle
    /\ EndpointIdle
    /\ BuildIdle
    /\ PathIdle
    /\ RecommendIdle
    /\ AppIdle
    /\ LabelIdle
    /\ LoadIdle

NextPool ==
    \/ \E speed \in UsbSpeed : PoolNew(speed) /\ UNCHANGED notPool
    \/ \E speed \in UsbSpeed : \E used_bps \in UsageInputs(speed) :
           PoolWithUsage(speed, used_bps) /\ UNCHANGED notPool
    \/ \E used_bps \in {<<>>, <<1>>, U64Max} :
           PoolLiteral("High", used_bps) /\ UNCHANGED notPool
    \/ \E bps \in AddInputs : AddUsage(bps) /\ UNCHANGED notPool

SpecPool == InitPool /\ [][NextPool]_vars

-----------------------------------------------------------------------------
(* The recommend command: one build, then the buses are ordered.  Bus 1 has  *)
(* two devices; with two cameras their isochronous endpoints reserve more    *)
(* than the High-speed maximum.                                              *)

RecommendEnumeration(r2, d2) ==
    [n \in {"usb1", "usb2", "1-1", "1-2", "2-1"} |->
        CASE n = "usb1" -> RootHub("480\n", PciLink("usb1"))
          [] n = "usb2" -> r2
          [] n = "1-1" -> HighCam [] n = "1-2" -> d2 [] n = "2-1" -> FullAudio]

RecommendEnumerations ==
    {RecommendEnumeration(r2, d2) :
        r2 \in {RootHub("5000\n", PciLink("usb2")), RootHub("", PciLink("usb2"))},
        d2 \in {HighCam, LowKbd, Unconfigured}}

\* print_recommendations on the topology the build returned
Recommend ==
    /\ ~recommended.done
    /\ pass = "idle"
    /\ snapshots # <<>>
    /\ snapshots[Len(snapshots)].ok
    /\ recommended' \in recommend_outcomes(snapshots[Len(snapshots)].topology)
    /\ UNCHANGED <<speedVars, endpointVars, buildVars, pathVars, poolVars, appVars,
                   labelVars, loadVars>>

InitRecommend ==
    /\ sysfs \in RecommendEnumerations
    /\ pass = "idle"
    /\ todo = {}
    /\ bus_todo = {}
    /\ topology = EmptyTopology
    /\ snapshots = <<>>
    /\ SpeedIdle
    /\ EndpointIdle
    /\ PathIdle
    /\ PoolIdle
    /\ RecommendIdle
    /\ AppIdle
    /\ LabelIdle
    /\ LoadIdle

NextRecommend == NextBuild \/ Recommend

SpecRecommend == InitRecommend /\ [][NextRecommend]_vars

-----------------------------------------------------------------------------
(* Loading a configuration: read_and_flatten_toml as a machine with a stack  *)
(* of calls, each frame holding the file's table, the inherited paths still  *)
(* to load and what has been merged so far.                                  *)

\* the deepest chain of calls followed
MaxCalls == 4

LoadRoot == "a"
FileNames == {"a", "b", "c"}
InheritNames == {"a", "b", "c", "./b"}

\* the forms of a file's inherit key
NoInherit == [kind |-> "none", path |-> "", paths |-> <<>>]
InheritForms ==
    {NoInherit, [kind |-> "other", path |-> "", paths |-> <<>>],
     [kind |-> "array", path |-> "", paths |-> <<>>]}
        \cup {[kind |-> "string", path |-> n, paths |-> <<>>] : n \in InheritNames}
        \cup {[kind |-> "array", path |-> "", paths |-> <<n1, n2>>] :
                n1 \in {"b", "c"}, n2 \in InheritNames}

\* the rest of each file
FileDoc(name) ==
    CASE name = "a" ->
            TomlTable([k \in {"products", "physical_ports"} |->
                IF k = "products"
                THEN TomlTable([q \in {"046d:c31c"} |-> TomlString("from a")])
                ELSE TomlArray(<<TomlString("port a")>>)])
      [] name = "b" ->
            TomlTable([k \in {"products", "settings"} |->
                IF k = "products"
                THEN TomlTable([q \in {"046d:c31c", "0bda:5411"} |-> TomlString("from b")])
                ELSE TomlTable([q \in {"theme"} |-> TomlString("light")])])
      [] OTHER ->
            TomlTable([k \in {"physical_ports", "settings"} |->
                IF k = "physical_ports" THEN TomlArray(<<TomlString("port c")>>)
                ELSE TomlTable([q \in {"theme"} |-> TomlString("dark")])])

\* the configuration files on disk: a and b exist, c may be missing
FileSets ==
    {[n \in names |-> [inherit |-> inh[n], doc |-> FileDoc(n)]] :
        names \in {{"a", "b", "c"}, {"a", "b"}},
        inh \in [FileNames -> InheritForms]}

LoadError(why) == [done |-> TRUE, ok |-> FALSE, error |-> why, value |-> NoConfig]

\* read_and_flatten_toml up to its loop: the outcome of a call on path
\* is an error that ends the load, or a new frame
Enter(path) ==
    LET canonical == canonicalize(path)
    IN  IF canonical \notin DOMAIN files
        THEN /\ load_result' = LoadError("Inheritance: cannot resolve")
             /\ stack' = <<>>
             /\ UNCHANGED seen
        ELSE IF already_seen(seen, canonical)
        THEN /\ load_result' = LoadError("Inheritance: inherited more than once")
             /\ stack' = <<>>
             /\ UNCHANGED seen
        ELSE IF files[canonical].inherit.kind = "other"
        THEN /\ load_result' = LoadError("Inheritance: must be a string or array")
             /\ stack' = <<>>
             /\ seen' = seen \cup {canonical}
        ELSE /\ stack' = Append(stack, [file |-> canonical,
                                        doc |-> files[canonical].doc,
                                        paths |-> inherited_paths(files[canonical].inherit),
                                        some |-> FALSE,
                                        merged |-> TomlTable(EmptyMap)])
             /\ seen' = seen \cup {canonical}
             /\ UNCHANGED load_result

\* Config::load_from_path: a fresh seen set and the call on the root
LoadStart ==
    /\ ~load_result.done
    /\ stack = <<>>
    /\ seen = {}
    /\ Enter(LoadRoot)
    /\ UNCHANGED files

\* the loop of read_and_flatten_toml: the call on the next inherited path
LoadInherited ==
    /\ stack # <<>>
    /\ Len(stack) < MaxCalls
    /\ stack[Len(stack)].paths # <<>>
    /\ Enter(Head(stack[Len(stack)].paths))
    /\ UNCHANGED files

\* a call returns Ok(result): its caller merges it, or load_from_path
\* converts it
LoadReturn ==
    /\ stack # <<>>
    /\ stack[Len(stack)].paths = <<>>
    /\ LET top == stack[Len(stack)]
           result == IF top.some THEN merge_toml_values(top.merged, top.doc) ELSE top.doc
           rest == SubSeq(stack, 1, Len(stack) - 1)
       IN  IF rest = <<>>
           THEN /\ load_result' = [done |-> TRUE, ok |-> TRUE, error |-> "",
                                   value |-> config_from(result)]
                /\ stack' = <<>>
           ELSE /\ stack' = [rest EXCEPT ![Len(rest)] =
                                [@ EXCEPT !.paths = Tail(@),
                                          !.some = TRUE,
                                          !.merged = IF rest[Len(rest)].some
                                                     THEN merge_toml_values(@, result)
                                                     ELSE result]]
                /\ UNCHANGED load_result
    /\ UNCHANGED <<files, seen>>

notLoad == <<speedVars, endpointVars, buildVars, pathVars, poolVars, recommendVars,
             appVars, labelVars>>

InitLoad ==
    /\ files \in FileSets
    /\ seen = {}
    /\ stack = <<>>
    /\ load_result = NoLoadResult
    /\ SpeedIdle
    /\ EndpointIdle
    /\ BuildIdle
    /\ PathIdle
    /\ PoolIdle
    /\ RecommendIdle
    /\ AppIdle
    /\ LabelIdle

NextLoad ==
    \/ LoadStart /\ UNCHANGED notLoad
    \/ LoadInherited /\ UNCHANGED notLoad
    \/ LoadReturn /\ UNCHANGED notLoad

\* the load is sequential code: a step that can be taken is taken
SpecLoad == InitLoad /\ [][NextLoad]_vars /\ WF_vars(NextLoad)

-----------------------------------------------------------------------------
(* Labelling devices in the interactive session *)

\* longest label typed, and how many times the labels are written
MaxLabelLen == 1
MaxWrites == 1

LabelChars == {"a", "\""}

\* the devices of the session's topology: a keyboard with a serial and a
\* product string, and a hub with neither
LabelKeyboard ==
    [path |-> "1-1", vendor_id |-> 1133, product_id |-> 49948, is_hub |-> FALSE,
     label |-> NoString, product |-> SomeString("USB Keyboard"),
     manufacturer |-> SomeString("Logitech"), serial |-> SomeString("A1")]
LabelHub ==
    [path |-> "1-2", vendor_id |-> 3034, product_id |-> 21521, is_hub |-> TRUE,
     label |-> NoString, product |-> NoString,
     manufacturer |-> NoString, serial |-> NoString]
LabelDevices == <<LabelKeyboard, LabelHub>>
DeviceAt(path) == IF path = "1-1" THEN LabelKeyboard ELSE LabelHub
LabelPaths == {LabelDevices[i].path : i \in DOMAIN LabelDevices}

\* the [products] and [devices] tables of the loaded configuration
LoadedProducts ==
    {EmptyMap, [k \in {"046d:c31c"} |-> "Desk keyboard"],
     [k \in {"046d:c31c:A1"} |-> "My keyboard"]}
LoadedDevices == [k \in {"1-2"} |-> "Old hub"]

\* what a draw shows for every device
render(pending, config_products) ==
    {[q \in LabelPaths |->
         item_label(pending, config_products, LoadedDevices, DeviceAt(q), with_serial)] :
     with_serial \in BOOLEAN}

\* 'e' on a selected device
StartEdit(path) ==
    /\ ~edit_mode.some
    /\ edit_mode' = [some |-> TRUE, device_path |-> path,
                     input |-> IF path \in DOMAIN pending_labels
                               THEN pending_labels[path] ELSE ""]
    /\ items' \in render(pending_labels, products)
    /\ UNCHANGED <<pending_labels, products, config_file>>

\* a character key in edit mode
TypeChar(c) ==
    /\ edit_mode.some
    /\ Len(edit_mode.input) < MaxLabelLen
    /\ edit_mode' = [edit_mode EXCEPT !.input = @ \o c]
    /\ items' \in render(pending_labels, products)
    /\ UNCHANGED <<pending_labels, products, config_file>>

\* Backspace in edit mode
Backspace ==
    /\ edit_mode.some
    /\ edit_mode.input # ""
    /\ edit_mode' = [edit_mode EXCEPT !.input = SubSeq(@, 1, Len(@) - 1)]
    /\ items' \in render(pending_labels, products)
    /\ UNCHANGED <<pending_labels, products, config_file>>

\* Enter in edit mode: App::confirm_edit
ConfirmEdit ==
    /\ edit_mode.some
    /\ edit_mode' = NoEdit
    /\ pending_labels' = IF edit_mode.input # ""
                         THEN Put(pending_labels, edit_mode.device_path, edit_mode.input)
                         ELSE pending_labels
    /\ items' \in render(pending_labels', products)
    /\ UNCHANGED <<products, config_file>>

\* Esc in edit mode: App::cancel_edit
CancelEdit ==
    /\ edit_mode.some
    /\ edit_mode' = NoEdit
    /\ items' \in render(pending_labels, products)
    /\ UNCHANGED <<pending_labels, products, config_file>>

\* 'w' and write_pending_labels returns Ok
WriteLabelsOk ==
    /\ ~edit_mode.some
    /\ pending_labels # EmptyMap
    /\ Len(config_file) < MaxWrites
    /\ \E keys \in Orders(DOMAIN pending_labels) :
           config_file' = Append(config_file, new_entries(pending_labels, keys))
    /\ products' = merge_pending(products, pending_labels)
    /\ pending_labels' = EmptyMap
    /\ items' \in render(pending_labels', products')
    /\ UNCHANGED edit_mode

\* 'w' and write_pending_labels returns Err: nothing was written, or the
\* file was created anew and the write into it failed
WriteLabelsErr ==
    /\ ~edit_mode.some
    /\ pending_labels # EmptyMap
    /\ config_file' \in {config_file, <<>>}
    /\ items' \in render(pending_labels, products)
    /\ UNCHANGED <<pending_labels, products, edit_mode>>

notLabel == <<speedVars, endpointVars, buildVars, pathVars, poolVars, recommendVars,
              appVars, loadVars>>

InitLabel ==
    /\ pending_labels = EmptyMap
    /\ products \in {apply_product_defaults(loaded, LabelDevices) : loaded \in LoadedProducts}
    /\ edit_mode = NoEdit
    /\ config_file = <<>>
    /\ items \in render(pending_labels, products)
    /\ SpeedIdle
    /\ EndpointIdle
    /\ BuildIdle
    /\ PathIdle
    /\ PoolIdle
    /\ RecommendIdle
    /\ AppIdle
    /\ LoadIdle

NextLabel ==
    \/ \E path \in LabelPaths : StartEdit(path) /\ UNCHANGED notLabel
    \/ \E c \in LabelChars : TypeChar(c) /\ UNCHANGED notLabel
    \/ Backspace /\ UNCHANGED notLabel
    \/ ConfirmEdit /\ UNCHANGED notLabel
    \/ CancelEdit /\ UNCHANGED notLabel
    \/ WriteLabelsOk /\ UNCHANGED notLabel
    \/ WriteLabelsErr /\ UNCHANGED notLabel

SpecLabel == InitLabel /\ [][NextLabel]_vars

-----------------------------------------------------------------------------
(* The interactive session: the build at startup makes the App, every later  *)
(* build is a refresh; between builds devices are plugged and unplugged.     *)

\* how many refreshes follow the startup build
MaxRefreshes == 2

AppEnumeration(names) ==
    [n \in names |->
        CASE n = "usb1" -> RootHub("480\n", PciLink("usb1"))
          [] n = "1-1" -> LowKbd
          [] n = "1-2" -> FullAudio]

AppEnumerations ==
    {AppEnumeration(names) : names \in {{"usb1", "1-1"}, {"usb1", "1-1", "1-2"}, {"usb1", "1-2"}}}

notBuildNorApp == <<speedVars, endpointVars, pathVars, poolVars, recommendVars,
                    labelVars, loadVars>>

\* main and the 'r' key or the refresh timer: parse_topology is called; a
\* session whose startup build failed has ended
AppStartBuild ==
    /\ snapshots = <<>> \/ app.created
    /\ StartBuild(MaxRefreshes + 1)
    /\ UNCHANGED notBuild

\* parse_topology returned Ok: App::new at startup, update_topology after
AppBuildOk ==
    /\ ReturnOk
    /\ IF app.created
       THEN \E paths \in Orders(all_device_paths(topology)) :
                app' = update_topology(app, topology, paths)
       ELSE app' = App_new(topology)
    /\ UNCHANGED notBuildNorApp

\* parse_topology returned Err: main returns at startup, a refresh does nothing
AppBuildErr ==
    /\ ReadDirError
    /\ UNCHANGED app
    /\ UNCHANGED notBuildNorApp

\* between two builds the set of entries changes
Replug ==
    /\ pass = "idle"
    /\ app.created
    /\ Len(snapshots) < MaxRefreshes + 1
    /\ sysfs' \in AppEnumerations \ {sysfs}
    /\ UNCHANGED <<pass, todo, bus_todo, topology, snapshots>>
    /\ UNCHANGED notBuild

InitApp ==
    /\ sysfs \in AppEnumerations
    /\ pass = "idle"
    /\ todo = {}
    /\ bus_todo = {}
    /\ topology = EmptyTopology
    /\ snapshots = <<>>
    /\ SpeedIdle
    /\ EndpointIdle
    /\ PathIdle
    /\ PoolIdle
    /\ RecommendIdle
    /\ AppIdle
    /\ LabelIdle
    /\ LoadIdle

NextApp ==
    \/ AppStartBuild
    \/ \E name \in DOMAIN sysfs : Pass1Entry(name) /\ UNCHANGED notBuild
    \/ BeginPass2 /\ UNCHANGED notBuild
    \/ \E name \in DOMAIN sysfs : Pass2Entry(name) /\ UNCHANGED notBuild
    \/ BeginPass3 /\ UNCHANGED notBuild
    \/ \E num \in bus_todo : Pass3Bus(num) /\ UNCHANGED notBuild
    \/ AppBuildOk
    \/ AppBuildErr
    \/ Replug

SpecApp == InitApp /\ [][NextApp]_vars


-----------------------------------------------------------------------------
(* Claims about the endpoint model (SpecEndpoint) and the speed model       *)
(* (SpecSpeed)                                                              *)

\* the raw two bits 12:11 and the low eleven bits of a packet-size field
RawMultBits(f) == (f \div 2048) % 4
LowElevenBits(f) == f % 2048

\* C2: for every Control or Bulk endpoint, bandwidth_bps returns 0 whatever
\* the packet-size field, the interval code and the device speed.
C2_ControlBulkZero ==
    (bw.done /\ ep.transfer_type \in {"Control", "Bulk"})
        => (bw.value = <<>> /\ bw.fault = "none")

C2_Witness ==
    /\ bw.done
    /\ ep = [transfer_type |-> "Bulk", max_packet_size |-> 512, b_interval |-> 0]
    /\ device_speed = "High"
    /\ bw.value = <<>>

\* C3: for an Interrupt or Isochronous endpoint on a Low or Full speed
\* device, bandwidth_bps = floor((field & 0x07FF) * multiplier * 8 * 1_000_000
\* / (c * 1000)) with c the interval code in milliseconds, code 0 taken as 1;
\* field 64, code 8, Full speed gives 64000.  (The quotient equals
\* floor(bits * 1000 / c), which is how it is evaluated here.)
C3_LowFullFormula ==
    (bw.done /\ ep.transfer_type \in {"Interrupt", "Isochronous"}
            /\ device_speed \in {"Low", "Full"})
        => LET c == IF ep.b_interval = 0 THEN 1 ELSE ep.b_interval
               bits == LowElevenBits(ep.max_packet_size)
                           * (RawMultBits(ep.max_packet_size) + 1) * 8
           IN  /\ bw.value = Digits((bits * 1000) \div c)
               /\ (ep.max_packet_size = 64 /\ ep.b_interval = 8 /\ device_speed = "Full")
                      => bw.value = Digits(64000)

C3_Witness ==
    /\ bw.done
    /\ ep = [transfer_type |-> "Interrupt", max_packet_size |-> 64, b_interval |-> 8]
    /\ device_speed = "Full"
    /\ bw.value = Digits(64000)

\* C4: for a High, Super, SuperPlus or SuperPlus2 device the interval used by
\* bandwidth_bps is 2^(code-1) * 125 us for codes 1..16, 125 us for code 0 and
\* 2^15 * 125 us for every code above 16; field 64, code 4, High speed gives
\* 512000 bps.
C4_HighIntervalFormula ==
    (bw.done /\ ep.transfer_type \in {"Interrupt", "Isochronous"}
            /\ device_speed \in {"High", "Super", "SuperPlus", "SuperPlus2"})
        => LET c == ep.b_interval
               expected == IF c = 0 THEN 125
                           ELSE IF c <= 16 THEN (2 ^ (c - 1)) * 125
                           ELSE 32768 * 125
           IN  /\ bw.interval = expected
               /\ (ep.max_packet_size = 64 /\ c = 4 /\ device_speed = "High")
                      => (bw.interval = 1000 /\ bw.value = Digits(512000))

C4_Witness ==
    /\ bw.done
    /\ ep = [transfer_type |-> "Interrupt", max_packet_size |-> 64, b_interval |-> 4]
    /\ device_speed = "High"
    /\ bw.value = Digits(512000)

C6_Total ==
    bw.done =>
        /\ bw.fault = "none"
        /\ FitsU64(bw.value)
        /\ BigLeq(bw.value, Digits(524032000))
        /\ (ep.transfer_type \in {"Interrupt", "Isochronous"}) =>
              /\ bw.interval >= 125
              /\ FitsU64(BigMulSmall(Digits(bw.packet_size * bw.mult * 8), 1000000))

C6_Witness ==
    /\ bw.done
    /\ ep.transfer_type = "Isochronous"
    /\ ep.max_packet_size = 65535
    /\ ep.b_interval \in {0, 1}
    /\ bw.value = Digits(524032000)

-----------------------------------------------------------------------------
(* Claims about the build (SpecBuild) and about repeated builds (SpecTwice) *)

\* what one endpoint reserves at a speed, in closed form: the low eleven bits
\* times (bits 12:11) + 1 times 8, per c ms on Low and Full (code 0 read as
\* 1) and per 2^(c-1) * 125 us above (10^6 / 125 = 8000)
ReservedAt(e, speed) ==
    LET bits == LowElevenBits(e.max_packet_size) * (RawMultBits(e.max_packet_size) + 1) * 8
        c == e.b_interval
    IN  IF e.transfer_type \notin {"Interrupt", "Isochronous"} THEN 0
        ELSE IF speed \in {"Low", "Full"} THEN (bits * 1000) \div (IF c = 0 THEN 1 ELSE c)
        ELSE (bits * 8000) \div (2 ^ (IF c = 0 THEN 0 ELSE IF c > 16 THEN 15 ELSE c - 1))

\* every (device path, endpoint index) pair of a device map
EndpointsOf(devices) ==
    UNION {{<<p, i>> : i \in DOMAIN devices[p].endpoints} : p \in DOMAIN devices}

RECURSIVE FlatSum(_, _)
FlatSum(devices, pairs) ==
    IF pairs = {} THEN 0
    ELSE LET x == CHOOSE y \in pairs : TRUE
         IN  ReservedAt(devices[x[1]].endpoints[x[2]], devices[x[1]].speed)
                 + FlatSum(devices, pairs \ {x})

OkSnapshots == {i \in DOMAIN snapshots : snapshots[i].ok}

\* C1: for every bus of every topology a build returned,
\* periodic_bandwidth_used_bps is the flat sum, over all endpoints of all
\* devices of the bus's device map, of what each Interrupt or Isochronous
\* endpoint reserves at its own device's speed (never the bus speed).
C1_FlatSumOwnSpeed ==
    \A i \in OkSnapshots : \A b \in DOMAIN snapshots[i].topology.buses :
        LET bus == snapshots[i].topology.buses[b]
        IN  periodic_bandwidth_used_bps(bus)
                = Digits(FlatSum(bus.devices, EndpointsOf(bus.devices)))

\* a Low-speed keyboard behind a High-speed hub on a High-speed bus: 64 bits
\* every 10 ms is 6400 bps (1000 bps had the code been read at High speed)
C1_Witness ==
    /\ 1 \in OkSnapshots
    /\ 1 \in DOMAIN snapshots[1].topology.buses
    /\ LET bus == snapshots[1].topology.buses[1]
       IN  /\ bus.speed = "High"
           /\ DOMAIN bus.devices = {"1-1", "1-1.1", "1-1.2"}
           /\ bus.devices["1-1.1"].speed = "Low"
           /\ bus.devices["1-1.1"].endpoints # <<>>
           /\ periodic_bandwidth_bps(bus.devices["1-1.1"]) = Digits(6400)
           /\ periodic_bandwidth_used_bps(bus) = Digits(31 + 6400 + 196608000)

\* a device as the claims compare it: everything but the order of its
\* endpoint list, which follows the order the endpoint directories were read
DeviceUpToEndpointOrder(d) ==
    [d EXCEPT !.endpoints = {d.endpoints[k] : k \in DOMAIN d.endpoints}]

\* C8: two builds over the same entries, attributes and controller
\* resolutions, in any two enumeration orders, return identical topologies:
\* the same controllers (pci-address, usb2_bus and usb3_bus slots), the same
\* buses, the same devices per bus and the same children lists.
C8_IdenticalTopologies ==
    \A i, j \in OkSnapshots : i < j =>
        LET s == snapshots[i].topology
            t == snapshots[j].topology
        IN  /\ s.controllers = t.controllers
            /\ DOMAIN s.buses = DOMAIN t.buses
            /\ \A b \in DOMAIN s.buses :
                  /\ s.buses[b].speed = t.buses[b].speed
                  /\ s.buses[b].controller_id = t.buses[b].controller_id
                  /\ DOMAIN s.buses[b].devices = DOMAIN t.buses[b].devices
                  /\ \A p \in DOMAIN s.buses[b].devices :
                        DeviceUpToEndpointOrder(s.buses[b].devices[p])
                            = DeviceUpToEndpointOrder(t.buses[b].devices[p])

\* C9: two builds from the same fixed enumeration return, for every device,
\* the same sorted children list and, for every bus, the same periodic
\* bandwidth total.
C9_SameChildrenAndTotals ==
    \A i, j \in OkSnapshots : i < j =>
        LET s == snapshots[i].topology
            t == snapshots[j].topology
        IN  /\ DOMAIN s.buses = DOMAIN t.buses
            /\ \A b \in DOMAIN s.buses :
                  /\ DOMAIN s.buses[b].devices = DOMAIN t.buses[b].devices
                  /\ \A p \in DOMAIN s.buses[b].devices :
                        s.buses[b].devices[p].children = t.buses[b].devices[p].children
                  /\ periodic_bandwidth_used_bps(s.buses[b])
                         = periodic_bandwidth_used_bps(t.buses[b])

\* two builds that read the camera's endpoint directories in different
\* orders: the hub has both children, sorted, and the bus the same total
C9_Witness ==
    /\ OkSnapshots = {1, 2}
    /\ 1 \in DOMAIN snapshots[1].topology.buses
    /\ 1 \in DOMAIN snapshots[2].topology.buses
    /\ LET s == snapshots[1].topology.buses[1]
           t == snapshots[2].topology.buses[1]
       IN  /\ s.devices["1-1"].children = <<"1-1.1", "1-1.2">>
           /\ t.devices["1-1"].children = <<"1-1.1", "1-1.2">>
           /\ s.devices["1-1.2"].endpoints # t.devices["1-1.2"].endpoints
           /\ periodic_bandwidth_used_bps(s) = Digits(31 + 6400 + 196608000)
           /\ periodic_bandwidth_used_bps(t) = Digits(31 + 6400 + 196608000)

\* the bus numbers of the root hub entries usbN whose speed reads and parses
ParsedRootHubs ==
    {n \in 0 .. 255 : /\ ("usb" \o ToString(n)) \in DOMAIN sysfs
                      /\ read_attr_u32("usb" \o ToString(n), "speed").ok}

\* the device entries whose path names a bus that no parsed root hub gave
DevicesOfMissingBus ==
    {name \in DOMAIN sysfs : /\ contains(name, "-")
                             /\ ~contains(name, ":")
                             /\ bus_num(name) \notin ParsedRootHubs}

\* C10: a device entry whose path names a bus that is not in the bus map
\* (99-1) is in no bus's device map, no bus is created for it, the buses are
\* exactly the root hubs that parsed, and the build returns a topology: the
\* only error a build ever returns is a failed directory read.
C10_MissingBusDropped ==
    /\ \A i \in OkSnapshots :
          LET buses == snapshots[i].topology.buses
          IN  /\ DOMAIN buses = ParsedRootHubs
              /\ Cardinality(DOMAIN buses) = Cardinality(ParsedRootHubs)
              /\ \A name \in DevicesOfMissingBus :
                    /\ bus_num(name) \notin DOMAIN buses
                    /\ \A b \in DOMAIN buses : name \notin DOMAIN buses[b].devices
    /\ \A i \in DOMAIN snapshots \ OkSnapshots : snapshots[i].error = "Io"
    /\ (pass = "pass3" /\ DevicesOfMissingBus # {}) =>
          /\ DOMAIN topology.buses = ParsedRootHubs
          /\ \A name \in DevicesOfMissingBus, b \in DOMAIN topology.buses :
                name \notin DOMAIN topology.buses[b].devices

\* both root hubs parsed, the entry 99-1 is a well-formed device, and the
\* returned topology has the two buses and no trace of it
C10_Witness ==
    /\ 1 \in OkSnapshots
    /\ ParsedRootHubs = {1, 2}
    /\ "99-1" \in DevicesOfMissingBus
    /\ parse_device("99-1", <<>>).ok
    /\ DOMAIN snapshots[1].topology.buses = {1, 2}
    /\ \A b \in {1, 2} : "99-1" \notin DOMAIN snapshots[1].topology.buses[b].devices
    /\ "2-1" \in DOMAIN snapshots[1].topology.buses[2].devices

-----------------------------------------------------------------------------
(* Claims about the device-path methods (SpecPath) *)

\* the part of a path before its '-' (the whole path when it has none) and
\* whether a string is the decimal numeral of n
BusPart(path) == split_first(path, "-")
IsNumeral(str, n) == str = ToString(n)

C18_BusNum ==
    path_out.done =>
        /\ \A n \in 0 .. 255 :
              /\ (contains(path_in, "-") /\ IsNumeral(BusPart(path_in), n))
                    => path_out.bus_num = n
              /\ path_in = "usb" \o ToString(n) => path_out.bus_num = n
        /\ (/\ \A n \in 0 .. 256 : ~IsNumeral(BusPart(path_in), n)
            /\ \A n \in 0 .. 256 : path_in # "usb" \o ToString(n))
               => path_out.bus_num = -1
        /\ path_in = "3-1.2" => path_out.bus_num = 3

C20_IsRootHub ==
    path_out.done =>
        /\ path_out.is_root_hub = (starts_with(path_in, "usb") /\ ~contains(path_in, "-"))
        /\ contains(path_in, "-") => ~path_out.is_root_hub

-----------------------------------------------------------------------------
(* Claims about what the build registers (SpecBuild) *)

\* the device entries whose speed, vendor id and product id read and parse
ParseableDevices ==
    {name \in DOMAIN sysfs : /\ contains(name, "-")
                             /\ ~contains(name, ":")
                             /\ read_attr_u32(name, "speed").ok
                             /\ read_hex_attr_u16(name, "idVendor").ok
                             /\ read_hex_attr_u16(name, "idProduct").ok}

\* C11: when the directory reads succeed the build returns a topology whatever
\* per-node reads fail: a root hub whose speed does not read or parse, or a
\* device whose speed, vendor id or product id does not read or parse, is the
\* only node left out for it; every other root hub is a bus and every other
\* parseable device whose bus is present is in that bus's device map.
C11_BestEffort ==
    /\ \A i \in DOMAIN snapshots : snapshots[i].ok \/ snapshots[i].error = "Io"
    /\ \A i \in OkSnapshots :
          LET buses == snapshots[i].topology.buses
          IN  /\ DOMAIN buses = ParsedRootHubs
              /\ \A b \in DOMAIN buses :
                    DOMAIN buses[b].devices = {name \in ParseableDevices : bus_num(name) = b}

\* the hub's speed and the vendor id of the device on port 2 do not parse:
\* both are left out; the unconfigured device below the hub and the device
\* on bus 2 are kept
C11_Witness ==
    /\ 1 \in OkSnapshots
    /\ ParsedRootHubs = {1, 2}
    /\ ~read_attr_u32("1-1", "speed").ok
    /\ ~read_hex_attr_u16("1-1.2", "idVendor").ok
    /\ ~read_attr_u8("1-1.1", "bConfigurationValue").ok
    /\ DOMAIN snapshots[1].topology.buses = {1, 2}
    /\ DOMAIN snapshots[1].topology.buses[1].devices = {"1-1.1"}
    /\ DOMAIN snapshots[1].topology.buses[2].devices = {"2-1"}

\* C12: after the build every bus of the bus map is referenced by the
\* usb2_bus or usb3_bus slot of a controller: get_controller_for_bus returns a
\* controller for every bus number in the map, also with the synthetic id
\* bus<N> and when several root hubs resolve to one controller id.
C12_NoOrphanBus ==
    \A i \in OkSnapshots :
        LET t == snapshots[i].topology
        IN  \A b \in DOMAIN t.buses : \A ids \in Orders(DOMAIN t.controllers) :
                get_controller_for_bus(t, ids, b).some

\* C13: when a root hub resolves to a controller id already registered, only
\* an empty usb2_bus or usb3_bus slot is filled: a slot that holds a bus
\* number is never overwritten, and the first-seen pci-address and label stay.
C13_SlotsFilledOnce ==
    [][pass = "pass1" /\ pass' = "pass1" =>
          \A id \in DOMAIN topology.controllers :
              /\ id \in DOMAIN topology'.controllers
              /\ topology.controllers[id].usb2_bus # -1 =>
                    topology'.controllers[id].usb2_bus = topology.controllers[id].usb2_bus
              /\ topology.controllers[id].usb3_bus # -1 =>
                    topology'.controllers[id].usb3_bus = topology.controllers[id].usb3_bus
              /\ topology'.controllers[id].pci_address = topology.controllers[id].pci_address
              /\ topology'.controllers[id].label = topology.controllers[id].label]_vars

\* the link target's component before usbN, as the enumeration gives it
LinkedController(n) ==
    LET link == sysfs["usb" \o ToString(n)].link
    IN  IF Len(link) >= 2 THEN link[Len(link) - 1] ELSE "bus" \o ToString(n)

SuperSpeedRoot(n) == trim(sysfs["usb" \o ToString(n)].speed) \in {"5000", "10000", "20000"}

\* C14: when two root hubs resolve to one controller id, one SuperSpeed and
\* one not, the SuperSpeed one is in the usb3 slot and the other in the usb2
\* slot and get_paired_bus of each gives the other; get_paired_bus gives None
\* for the bus of a controller with one bus and for a bus number that no
\* controller references.
C14_PairedBus ==
    \A i \in OkSnapshots :
        LET t == snapshots[i].topology
        IN  \A ids \in Orders(DOMAIN t.controllers) :
                /\ \A m, n \in ParsedRootHubs :
                      (/\ LinkedController(m) = LinkedController(n)
                       /\ SuperSpeedRoot(n) /\ ~SuperSpeedRoot(m))
                          => /\ t.controllers[LinkedController(n)].usb3_bus = n
                             /\ t.controllers[LinkedController(n)].usb2_bus = m
                             /\ get_paired_bus(t, ids, m) = n
                             /\ get_paired_bus(t, ids, n) = m
                /\ \A id \in DOMAIN t.controllers :
                      LET c == t.controllers[id]
                      IN  /\ (c.usb2_bus # -1 /\ c.usb3_bus = -1)
                                => get_paired_bus(t, ids, c.usb2_bus) = -1
                          /\ (c.usb3_bus # -1 /\ c.usb2_bus = -1)
                                => get_paired_bus(t, ids, c.usb3_bus) = -1
                /\ \A n \in 0 .. 255 :
                      (\A id \in DOMAIN t.controllers :
                           t.controllers[id].usb2_bus # n /\ t.controllers[id].usb3_bus # n)
                          => get_paired_bus(t, ids, n) = -1

\* a High-speed and a SuperSpeed root hub of one controller are paired; the
\* bus number 99 is referenced by no controller
C14_Witness ==
    /\ 1 \in OkSnapshots
    /\ ParsedRootHubs = {1, 2}
    /\ LinkedController(1) = LinkedController(2)
    /\ SuperSpeedRoot(2) /\ ~SuperSpeedRoot(1)
    /\ LET t == snapshots[1].topology
       IN  /\ DOMAIN t.controllers = {"0000:00:14.0"}
           /\ get_paired_bus(t, <<"0000:00:14.0">>, 1) = 2
           /\ get_paired_bus(t, <<"0000:00:14.0">>, 2) = 1
           /\ get_paired_bus(t, <<"0000:00:14.0">>, 99) = -1

\* C15: after any build, for every bus number b of the bus map and every key
\* p of bus b's device map, the device stored under p has path p and
\* p.bus_num() is b: no device is stored under another bus than the one its
\* path names and no device is in two buses.
C15_DevicesInOwnBus ==
    \A i \in OkSnapshots :
        LET buses == snapshots[i].topology.buses
        IN  /\ \A b \in DOMAIN buses : \A p \in DOMAIN buses[b].devices :
                  /\ buses[b].devices[p].path = p
                  /\ \E k \in 1 .. Len(p) :
                        /\ CharAt(p, k) = "-"
                        /\ SubSeq(p, 1, k - 1) = ToString(b)
            /\ \A b, c \in DOMAIN buses :
                  b # c => DOMAIN buses[b].devices \cap DOMAIN buses[c].devices = {}

C15_Witness ==
    /\ 1 \in OkSnapshots
    /\ DOMAIN snapshots[1].topology.buses = {1, 2}
    /\ DOMAIN snapshots[1].topology.buses[1].devices = {"1-1", "1-1.1", "1-1.2"}
    /\ DOMAIN snapshots[1].topology.buses[2].devices = {"2-1"}
    /\ "99-1" \in ParseableDevices

\* C16: after any build, for every device D of every bus: each path of
\* D.children is a device of the same bus whose parent() is D's path, the
\* list is strictly ascending in path-string order, and every device of the
\* bus whose parent() is D's path is in D.children.
C16_Children ==
    \A i \in OkSnapshots :
        \A b \in DOMAIN snapshots[i].topology.buses :
            LET devices == snapshots[i].topology.buses[b].devices
            IN  \A d \in DOMAIN devices :
                    LET children == devices[d].children
                    IN  /\ \A k \in DOMAIN children :
                              /\ children[k] \in DOMAIN devices
                              /\ parent(children[k]) = SomePath(d)
                        /\ \A k \in 1 .. (Len(children) - 1) :
                              StrLess(children[k], children[k + 1])
                        /\ \A p \in DOMAIN devices :
                              parent(p) = SomePath(d) =>
                                  \E k \in DOMAIN children : children[k] = p

\* the hub has its two children in order; the unconfigured device has none
C16_Witness ==
    /\ 1 \in OkSnapshots
    /\ 1 \in DOMAIN snapshots[1].topology.buses
    /\ DOMAIN snapshots[1].topology.buses[1].devices = {"1-1", "1-1.1", "1-1.2"}
    /\ snapshots[1].topology.buses[1].devices["1-1"].children = <<"1-1.1", "1-1.2">>
    /\ snapshots[1].topology.buses[1].devices["1-1.1"].children = <<>>
    /\ ~snapshots[1].topology.buses[1].devices["1-1.1"].is_configured

-----------------------------------------------------------------------------
(* Claims about the tree order of a bus's devices (SpecTree) *)

\* the buses of the topologies the build returned
ReturnedBuses ==
    UNION {{snapshots[i].topology.buses[n] : n \in DOMAIN snapshots[i].topology.buses} :
              i \in OkSnapshots}

\* d lies below a in the port tree
IsBelow(a, d) == starts_with(d, a \o ".")

\* the positions at which a sequence holds p
PositionsOf(order, p) == {i \in DOMAIN order : order[i] = p}

C29_EveryDeviceOnce ==
    \A bus \in ReturnedBuses :
        LET order == devices_tree_order(bus)
        IN  /\ Len(order) = device_count(bus)
            /\ \A p \in DOMAIN bus.devices : Cardinality(PositionsOf(order, p)) = 1

-----------------------------------------------------------------------------
(* Claims about the order of the build's passes (SpecBuild) *)

\* every children list of the topology under construction is empty
NoChildrenYet ==
    \A b \in DOMAIN topology.buses :
        \A d \in DOMAIN topology.buses[b].devices :
            topology.buses[b].devices[d].children = <<>>

\* C25: the three passes run strictly one after the other: while root-hub
\* entries are processed no device is in any bus; while device entries are
\* processed every parsed root hub is already a bus, every device entry
\* already yielded is in its bus, and no children list has been touched; the
\* children are wired only once every device is in its bus.  So a device
\* enumerated before its root hub is inserted and a child enumerated before
\* its parent hub is wired.
C25_PassOrder ==
    /\ pass = "pass1" =>
          \A b \in DOMAIN topology.buses : topology.buses[b].devices = EmptyMap
    /\ pass \in {"pass1", "pass2"} => NoChildrenYet
    /\ pass = "pass2" =>
          /\ DOMAIN topology.buses = ParsedRootHubs
          /\ \A name \in ParseableDevices \ todo :
                bus_num(name) \in ParsedRootHubs =>
                    name \in DOMAIN topology.buses[bus_num(name)].devices
    /\ pass = "pass3" =>
          \A b \in DOMAIN topology.buses :
              LET devices == topology.buses[b].devices
              IN  /\ DOMAIN devices = {name \in ParseableDevices : bus_num(name) = b}
                  /\ b \notin bus_todo =>
                        \A p, d \in DOMAIN devices :
                            parent(p) = SomePath(d) =>
                                \E k \in DOMAIN devices[d].children :
                                    devices[d].children[k] = p
                  /\ b \in bus_todo =>
                        \A d \in DOMAIN devices : devices[d].children = <<>>

\* in the second read the device 1-1.1 has been yielded before its root hub
\* usb1 and before its parent hub 1-1, and it is in bus 1 already
C25_Witness ==
    /\ pass = "pass2"
    /\ "1-1.1" \notin todo
    /\ {"usb1", "1-1"} \subseteq todo
    /\ 1 \in DOMAIN topology.buses
    /\ "1-1.1" \in DOMAIN topology.buses[1].devices
    /\ read_attr_u32("1-1", "speed").ok

-----------------------------------------------------------------------------
(* Claims about unconfigured devices and unreadable endpoints (SpecDevice) *)

\* the type and direction files of an endpoint directory hold known tokens
KnownTokens(d) ==
    /\ trim(d.type) \in {"Control", "Bulk", "Interrupt", "Isoc", "Isochronous"}
    /\ trim(d.direction) \in {"in", "out"}

\* the configuration value of an entry reads as a number above zero
ReadsConfigured(name) ==
    trim(sysfs[name].bConfigurationValue) \in {"1", "2"}

\* C30: a device whose configuration value is missing, unparseable or 0 is
\* kept in the topology with is_configured false and no endpoints, and adds 0
\* to the bus's used bandwidth; for a configured device an endpoint directory
\* whose type or direction token is not recognized is left out of the
\* device's endpoints and the device is kept.
C30_UnconfiguredAndBadEndpoints ==
    \A i \in OkSnapshots :
        LET devices == snapshots[i].topology.buses[1].devices
        IN  /\ DOMAIN devices = {"1-1", "1-2"}
            /\ \A name \in DOMAIN devices :
                  LET device == devices[name]
                      dirs == {d \in sysfs[name].endpoints : d.name # "ep_00"}
                  IN  IF ReadsConfigured(name)
                      THEN /\ device.is_configured
                           /\ {e.address : e \in {device.endpoints[k] : k \in DOMAIN device.endpoints}}
                                  = {BigToInt(read_hex_u8(d.bEndpointAddress).v) :
                                        d \in {x \in dirs : KnownTokens(x)}}
                           /\ Len(device.endpoints)
                                  = Cardinality({x \in dirs : KnownTokens(x)})
                      ELSE /\ ~device.is_configured
                           /\ device.endpoints = <<>>
                           /\ periodic_bandwidth_bps(device) = <<>>
            /\ ~ReadsConfigured("1-1") =>
                  periodic_bandwidth_used_bps(snapshots[i].topology.buses[1])
                      = periodic_bandwidth_bps(devices["1-2"])

\* the configuration value of 1-1 is 0: it is kept, unconfigured and without
\* endpoints; of the three endpoint directories of 1-2 only the one with
\* known tokens is an endpoint of the kept device
C30_Witness ==
    /\ 1 \in OkSnapshots
    /\ sysfs["1-1"].bConfigurationValue = "0\n"
    /\ sysfs["1-2"].endpoints = {EpKbdIn, EpBadType, EpBadDirection}
    /\ ~snapshots[1].topology.buses[1].devices["1-1"].is_configured
    /\ snapshots[1].topology.buses[1].devices["1-1"].endpoints = <<>>
    /\ Len(snapshots[1].topology.buses[1].devices["1-2"].endpoints) = 1
    /\ snapshots[1].topology.buses[1].devices["1-2"].endpoints[1].address = 129
    /\ periodic_bandwidth_used_bps(snapshots[1].topology.buses[1]) # <<>>

-----------------------------------------------------------------------------
(* Claims about the bandwidth pool (SpecPool) *)

\* the pool's percentage p = m * 2^e is used * 100 / max up to the rounding of
\* the conversion, the division and the multiplication (2^-51 in all)
NearPercent(p, used, max) ==
    LET exact == BigMulSmall(used, 100)
        scale == IF p.e < 0 THEN 0 - p.e ELSE 0
        lhs == BigMul(ShiftLeft(p.m, IF p.e > 0 THEN p.e ELSE 0), max)
        rhs == ShiftLeft(exact, scale)
        diff == IF BigLess(lhs, rhs) THEN BigSub(rhs, lhs) ELSE BigSub(lhs, rhs)
    IN  BigLeq(ShiftLeft(diff, 51), rhs)

\* C21: the usage percentage is 0 when the maximum is 0, whatever is used,
\* and used / max * 100 otherwise; is_high_usage holds exactly when
\* used * 100 > 80 * max and is_critical exactly when used * 100 > 95 * max,
\* so exactly 80% is not high and exactly 95% is not critical.
C21_PercentAndThresholds ==
    pool # NoPool =>
        LET p == periodic_usage_percent(pool)
            used == pool.used_periodic_bps
            max == pool.max_periodic_bps
        IN  IF max = <<>>
            THEN p = F64Zero /\ ~is_high_usage(pool) /\ ~is_critical(pool)
            ELSE /\ NearPercent(p, used, max)
                 /\ is_high_usage(pool)
                        <=> BigLess(BigMulSmall(max, 80), BigMulSmall(used, 100))
                 /\ is_critical(pool)
                        <=> BigLess(BigMulSmall(max, 95), BigMulSmall(used, 100))
                 /\ used = PercentOfMax(pool.speed, 80) =>
                        f64_eq_int(p, 80) /\ ~is_high_usage(pool)
                 /\ used = PercentOfMax(pool.speed, 95) =>
                        f64_eq_int(p, 95) /\ is_high_usage(pool) /\ ~is_critical(pool)

\* a High pool that add_usage brought to exactly 80% of 384000000: the
\* percentage is 80.0 and the pool is not high
C21_Witness ==
    /\ pool # NoPool
    /\ pool.speed = "High"
    /\ pool_adds = 1
    /\ pool.max_periodic_bps = Big(0, 384000000)
    /\ pool.used_periodic_bps = Big(0, 307200000)
    /\ f64_eq_int(periodic_usage_percent(pool), 80)
    /\ ~is_high_usage(pool)

\* C24: every pool made by new or with_usage and changed by add_usage calls
\* has a usage percentage between 0 and 100 inclusive.
C24_PercentWithin100 ==
    (pool # NoPool /\ pool.max_periodic_bps = max_periodic_bandwidth_bps(pool.speed)) =>
        ~f64_gt_int(periodic_usage_percent(pool), 100)

-----------------------------------------------------------------------------
(* Claims about available bandwidth (SpecRecommend) *)

\* the order of the bus numbers by saturating available bandwidth
SaturatingOrder(topo) ==
    LET nums == buses_sorted(topo)
    IN  sort_by_avail(nums, Len(nums),
                      [n \in DOMAIN topo.buses |-> avail_key_saturating(topo.buses[n])])

\* C22: available periodic bandwidth is max - used when used <= max and 0
\* when used > max, never an underflow, for every bus the build returns: in
\* available_periodic_bps of the bus's pool and in the ordering of the
\* recommend command alike.
C22_AvailableSaturates ==
    /\ \A bus \in ReturnedBuses :
          LET max == max_periodic_bandwidth_bps(bus.speed)
              used == periodic_bandwidth_used_bps(bus)
          IN  avail_key_saturating(bus)
                  = IF BigLeq(used, max) THEN BigSub(max, used) ELSE <<>>
    /\ recommended.done =>
          /\ ~recommended.panic
          /\ recommended.order = SaturatingOrder(snapshots[Len(snapshots)].topology)

-----------------------------------------------------------------------------
(* Claims about refreshes (SpecApp) *)

LastOk == CHOOSE i \in OkSnapshots : \A j \in OkSnapshots : j <= i

\* C26: after a refresh whose build succeeded the App's topology is the new
\* snapshot and nothing else, so a device absent from the new enumeration is
\* absent from it; after a refresh whose build failed it is what it was.
\* Hence the App's topology is always the last snapshot a build returned.
C26_RefreshReplaces ==
    app.created =>
        /\ OkSnapshots # {}
        /\ app.topology = snapshots[LastOk].topology

\* the startup build saw 1-1, the first refresh did not, the second refresh
\* failed: the App holds the first refresh's topology, without 1-1
C26_Witness ==
    /\ Len(snapshots) = 3
    /\ snapshots[1].ok /\ snapshots[2].ok /\ ~snapshots[3].ok
    /\ "1-1" \in all_device_paths(snapshots[1].topology)
    /\ all_device_paths(snapshots[2].topology) = {"1-2"}
    /\ all_device_paths(app.topology) = {"1-2"}
    /\ app.discovery_order = <<"1-2">>

-----------------------------------------------------------------------------
(* Claims about labels (SpecLabel) *)

\* the value last written for a key by this session
LastWritten(key) ==
    LET entries == config_file[Len(config_file)]
    IN  (CHOOSE i \in DOMAIN entries : entries[i].key = key)

\* C27: once a label entered for a device has been written (it is in the
\* file and no longer pending), every render shows that label on the
\* device's tree item.
C27_WrittenLabelShown ==
    \A q \in LabelPaths :
        (/\ config_file # <<>>
         /\ q \notin DOMAIN pending_labels
         /\ \E i \in DOMAIN config_file[Len(config_file)] :
                config_file[Len(config_file)][i].key = q)
        => escape_label(items[q])
               = config_file[Len(config_file)][LastWritten(q)].value

-----------------------------------------------------------------------------
(* Claims about loading (SpecLoad) *)

\* the files a load of the root follows inherit links to
RECURSIVE ReachFrom(_)
ReachFrom(R) ==
    LET more == R \cup {canonicalize(files[f].inherit.path) :
                            f \in {g \in R \cap DOMAIN files : files[g].inherit.kind = "string"}}
                  \cup UNION {{canonicalize(files[f].inherit.paths[i]) :
                                   i \in DOMAIN files[f].inherit.paths} :
                              f \in R \cap DOMAIN files}
    IN  IF more = R THEN R ELSE ReachFrom(more)
Reached == ReachFrom({LoadRoot})

\* how many inherit links of the followed files lead to a file
LinksTo(n) ==
    Cardinality({<<f, i>> \in (Reached \cap DOMAIN files) \X {1, 2} :
                    /\ i \in DOMAIN inherited_paths(files[f].inherit)
                    /\ canonicalize(inherited_paths(files[f].inherit)[i]) = n})

\* no file is reached a second time
NoRepetition == LinksTo(LoadRoot) = 0 /\ \A n \in Reached : LinksTo(n) <= 1

\* every followed file exists and has an inherit key of a valid form
AllReadable ==
    \A n \in Reached : n \in DOMAIN files /\ files[n].inherit.kind # "other"

\* the merge the doc comment describes: the inherited files in order, the
\* file's own values on top
RECURSIVE MergeList(_, _)
RECURSIVE Flattened(_)
Flattened(n) ==
    LET paths == inherited_paths(files[n].inherit)
    IN  IF paths = <<>> THEN files[n].doc
        ELSE merge_toml_values(MergeList(paths, Len(paths)), files[n].doc)
MergeList(paths, k) ==
    IF k = 1 THEN Flattened(canonicalize(paths[1]))
    ELSE merge_toml_values(MergeList(paths, k - 1), Flattened(canonicalize(paths[k])))

LoadSafe ==
    /\ \A i, j \in DOMAIN stack : stack[i].file = stack[j].file => i = j
    /\ \A i \in DOMAIN stack : stack[i].file \in seen
    /\ Len(stack) <= Cardinality(seen)
    /\ Len(stack) < MaxCalls
    /\ load_result.done =>
          /\ (~NoRepetition /\ AllReadable)
                => ~load_result.ok
                   /\ load_result.error = "Inheritance: inherited more than once"
          /\ (NoRepetition /\ AllReadable)
                => load_result.ok /\ load_result.value = config_from(Flattened(LoadRoot))
          /\ load_result.ok => NoRepetition /\ AllReadable

\* C28: every load ends; no file is entered while it or another call of it
\* is in progress; reaching a file a second time ends the load with the
\* Inheritance error, and a load without repetition returns the merge.
C28_LoadTerminates == []LoadSafe /\ <>load_result.done

\* a load that followed a cycle a -> b -> c -> a and ended with the error
C28_Witness ==
    /\ load_result.done
    /\ load_result.error = "Inheritance: inherited more than once"
    /\ seen = {"a", "b", "c"}
    /\ files["a"].inherit.kind = "string" /\ files["a"].inherit.path = "./b"
    /\ files["b"].inherit.kind = "string" /\ files["b"].inherit.path = "c"
    /\ files["c"].inherit.kind = "string" /\ files["c"].inherit.path = "a"

====
